---- MODULE Spec2Model ----
(***************************************************************************)
(* Workload / JTM allocation engine of the school planning backend.       *)
(* The relational store is modelled table by table (rows keyed by their   *)
(* serial id); every handler is one action that reads and writes the      *)
(* tables the way its queries do and leaves its outcome in `last`.        *)
(* `callers` holds, per client, the input a validation has just accepted. *)
(* Decimal jp_equivalent values (numeric(4,2)) and every workload figure  *)
(* are carried in hundredths of a lesson hour.                            *)
(***************************************************************************)
EXTENDS Integers, FiniteSets, Sequences, TLC

VARIABLES academicYears, teachers, subjects, classes, additionalTasks,
          jtmAssignments, nextJtmId, taskAssignments, nextTaskAssignmentId,
          callers, last

vars == <<academicYears, teachers, subjects, classes, additionalTasks,
          jtmAssignments, nextJtmId, taskAssignments, nextTaskAssignmentId,
          callers, last>>

masterData == <<academicYears, teachers, subjects, classes, additionalTasks>>
jtmTable == <<jtmAssignments, nextJtmId>>
taskTable == <<taskAssignments, nextTaskAssignmentId>>

----------------------------------------------------------------------------
(* Bounds of the model *)

\* serial ids handed out by jtm_assignments / task_assignments
MaxJtm == 2
MaxTaskAssignments == 1
\* ids of the classes table
MaxClass == 2

\* ids and values the handlers are called with: teachers 1 and 2, subject 1,
\* classes 1 and 2 and academic years 1 and 2 exist in the initial store
YearInputs == {1, 2, 3}
TeacherInputs == {1, 2, 3}
SubjectInputs == {1, 2}
ClassInputs == {1, 3}
HoursInputs == {16, 20}
StoreFailures == 0..3
JtmIdInputs == 1..(MaxJtm + 1)
TaskAssignmentIdInputs == 1..(MaxTaskAssignments + 1)

\* inputs of createJtmAssignment: every resolvable combination for class 1,
\* and one input per reference that does not resolve
JtmInputs ==
  [academic_year_id : YearInputs, teacher_id : {1, 2},
   subject_id : {1}, class_id : {1}, allocated_hours : HoursInputs]
  \cup [academic_year_id : {1}, teacher_id : {3}, subject_id : {1},
        class_id : {1}, allocated_hours : {16}]
  \cup [academic_year_id : {1}, teacher_id : {1}, subject_id : {2},
        class_id : {1}, allocated_hours : {16}]
  \cup [academic_year_id : {1}, teacher_id : {1}, subject_id : {1},
        class_id : {3}, allocated_hours : {16}]

\* inputs of validateJtmAllocation
ValidateInputs ==
  [academic_year_id : YearInputs, teacher_id : {1, 2},
   subject_id : {1}, class_id : {1, 2}, allocated_hours : {20}]

\* partial inputs of updateJtmAssignment (the id is passed separately)
JtmUpdateInputs ==
  {<<>>}
  \cup [academic_year_id : YearInputs]
  \cup [teacher_id : TeacherInputs]
  \cup [subject_id : SubjectInputs]
  \cup [class_id : ClassInputs]
  \cup [allocated_hours : HoursInputs]
  \cup [teacher_id : {2}, allocated_hours : {20}]

\* the same, and updates that pass 0 as the academic year or class id
JtmUpdateInputsYearZero == JtmUpdateInputs \cup [academic_year_id : {0}]
JtmUpdateInputsClassZero == JtmUpdateInputs \cup [class_id : {0}]

\* inputs of validateJtmAllocation, with an academic year id no record has
ValidateInputsYearZero ==
  ValidateInputs
  \cup [academic_year_id : {0}, teacher_id : {1, 2},
        subject_id : {1}, class_id : {1}, allocated_hours : {20}]

\* inputs of createTaskAssignment (the free-text description is left out)
TaskInputs ==
  [academic_year_id : {1, 2}, teacher_id : {1, 2}, task_id : {1}]
  \cup [academic_year_id : {3}, teacher_id : {1}, task_id : {1}]
  \cup [academic_year_id : {1}, teacher_id : {3}, task_id : {1}]
  \cup [academic_year_id : {1}, teacher_id : {1}, task_id : {2}]

\* partial inputs of updateTaskAssignment
TaskUpdateInputs ==
  {<<>>}
  \cup [academic_year_id : YearInputs]
  \cup [teacher_id : TeacherInputs]
  \cup [task_id : {1, 2}]

\* inputs of createJtmAssignment and createTaskAssignment for academic year 1,
\* and one input each whose class or task does not resolve
JtmInputsOfYearOne ==
  [academic_year_id : {1}, teacher_id : {1, 2}, subject_id : {1},
   class_id : {1}, allocated_hours : HoursInputs]
  \cup [academic_year_id : {1}, teacher_id : {1}, subject_id : {1},
        class_id : {3}, allocated_hours : {16}]
TaskInputsOfYearOne ==
  [academic_year_id : {1}, teacher_id : {1, 2}, task_id : {1}]
  \cup [academic_year_id : {1}, teacher_id : {1}, task_id : {2}]

\* inputs of createJtmAssignment for classes 1 and 2, and one whose subject
\* does not resolve
JtmInputsOfClasses ==
  [academic_year_id : {1}, teacher_id : {1}, subject_id : {1},
   class_id : {1, 2}, allocated_hours : {4}]
  \cup [academic_year_id : {1}, teacher_id : {1}, subject_id : {2},
        class_id : {1}, allocated_hours : {4}]

\* inputs of createJtmAssignment that pair classes 1 and 2 with academic
\* years 1 and 2
JtmInputsOfYears ==
  [academic_year_id : {1, 2}, teacher_id : {1}, subject_id : {1},
   class_id : {1, 2}, allocated_hours : {4}]

\* updates of a JTM assignment that change nothing, move it to academic year
\* 2, or pass 0 as the subject id
JtmUpdateInputsOfSubject ==
  {<<>>} \cup [academic_year_id : {2}] \cup [subject_id : {0}]

\* updates of a JTM assignment that pass 0 as the subject id
JtmUpdateInputsSubjectZero == [subject_id : {0}]

\* updates of a JTM assignment that change nothing or the hours alone
JtmUpdateInputsHours == {<<>>} \cup [allocated_hours : HoursInputs]

\* inputs of validateJtmAllocation for teacher 1 in class 1
ValidateInputsOfClassOne ==
  [academic_year_id : {1, 3}, teacher_id : {1}, subject_id : {1},
   class_id : {1}, allocated_hours : {20}]

\* partial inputs of updateClass (only the academic year is modelled)
ClassUpdateInputs == {<<>>} \cup [academic_year_id : {1, 3}]
ClassIdInputs == 1..(MaxClass + 1)

\* inputs of createAcademicYear / updateAcademicYear (texts left out)
AcademicYearInputs ==
  [total_time_allocation : {38, 40}]
  \cup [total_time_allocation : {38, 40}, is_active : BOOLEAN]
AcademicYearUpdateInputs ==
  {<<>>} \cup [total_time_allocation : {42}] \cup [is_active : BOOLEAN]

\* academic year ids the readers are asked about, 0 and 3 having no record
MissingYearInputs == {0, 1, 3}
StatusInputs == {"kurang", "layak", "lebih"}

\* clients that validate an input before they create it
Callers == {1, 2}

\* total workloads (in hundredths of an hour) handed to getWorkloadStatus
WorkloadSamples ==
  {0, 400, 10000} \cup (2380..2420) \cup (3980..4020)

----------------------------------------------------------------------------
(* Constants of the program *)

MIN_WORKLOAD_HOURS == 24
MAX_WORKLOAD_HOURS == 40

\* one lesson hour in the unit of the model (hundredths)
Scale == 100

----------------------------------------------------------------------------
(* Store helpers *)

RECURSIVE SumOver(_, _)
\* Array.reduce((sum, x) => sum + f(x), 0) over the rows `ids` of a query
SumOver(f, ids) ==
  IF ids = {} THEN 0
  ELSE LET i == CHOOSE x \in ids : TRUE
       IN f[i] + SumOver(f, ids \ {i})

\* select().from(t).where(eq(t.id, id)) returned a row
Exists(table, id) == id \in DOMAIN table

\* JS truthiness of an optional numeric field of a partial input
Provided(input, f) == f \in DOMAIN input
Truthy(input, f) == Provided(input, f) /\ input[f] # 0

----------------------------------------------------------------------------
(* Errors (message kind, the id or total it names, the limit it names) *)

ErrNotFound(kind, id) == <<kind, id, 0>>
ErrExceeds(newTotal, limit) == <<"exceeds curriculum limit", newTotal, limit>>
WarnApproaching(newTotal, limit) == <<"approaching curriculum limit", newTotal, limit>>
ErrDuplicate == <<"already assigned", 0, 0>>
ErrSystem == <<"Validation failed due to system error", 0, 0>>

Kinds(msgs) == {msgs[i][1] : i \in DOMAIN msgs}

NoError == <<"", 0, 0>>

\* the error a store query throws, as the handlers' catch blocks receive it
ErrStore == <<"store failure", 0, 0>>

----------------------------------------------------------------------------
(* Allocation Validator *)

\* variant: the scan also filters on the input's teacher
currentAssignments_OfTeacher(jtm, input) ==
  {id \in DOMAIN jtm :
     /\ jtm[id].class_id = input.class_id
     /\ jtm[id].academic_year_id = input.academic_year_id
     /\ jtm[id].teacher_id = input.teacher_id}

\* rows of jtm_assignments with the input's class and academic year
currentAssignments(jtm, input) ==
  {id \in DOMAIN jtm :
     /\ jtm[id].class_id = input.class_id
     /\ jtm[id].academic_year_id = input.academic_year_id}

\* variant: the scan does not compare the teacher
duplicateCheck_AnyTeacher(jtm, input) ==
  {id \in DOMAIN jtm :
     /\ jtm[id].academic_year_id = input.academic_year_id
     /\ jtm[id].subject_id = input.subject_id
     /\ jtm[id].class_id = input.class_id}

\* variant: the scan also compares allocated_hours
duplicateCheck_SameHours(jtm, input) ==
  {id \in DOMAIN jtm :
     /\ jtm[id].academic_year_id = input.academic_year_id
     /\ jtm[id].teacher_id = input.teacher_id
     /\ jtm[id].subject_id = input.subject_id
     /\ jtm[id].class_id = input.class_id
     /\ jtm[id].allocated_hours = input.allocated_hours}

\* rows of jtm_assignments with the input's (year, teacher, subject, class)
duplicateCheck(jtm, input) ==
  {id \in DOMAIN jtm :
     /\ jtm[id].academic_year_id = input.academic_year_id
     /\ jtm[id].teacher_id = input.teacher_id
     /\ jtm[id].subject_id = input.subject_id
     /\ jtm[id].class_id = input.class_id}

allocatedHours(jtm) == [id \in DOMAIN jtm |-> jtm[id].allocated_hours]

\* variant: the limit itself already counts as exceeded
exceedsLimit_AtLimit(newTotal, curriculumLimit) == newTotal >= curriculumLimit

\* newTotal > curriculumLimit
exceedsLimit(newTotal, curriculumLimit) == newTotal > curriculumLimit

\* variant: the warning has no upper bound
approachingLimit_NoUpperBound(newTotal, curriculumLimit) ==
  10 * newTotal > 9 * curriculumLimit

\* newTotal > curriculumLimit * 0.9 && newTotal <= curriculumLimit
\* (for integers the comparison with limit * 0.9 is 10 * newTotal > 9 * limit)
approachingLimit(newTotal, curriculumLimit) ==
  10 * newTotal > 9 * curriculumLimit /\ newTotal <= curriculumLimit

\* the catch block: one synthetic error, nothing else
systemError ==
  [isValid |-> FALSE, errors |-> <<ErrSystem>>, warnings |-> <<>>]

\* variant: no early return, the duplicate scan still runs
yearNotFound_FallThrough(input) ==
  [isValid |-> FALSE,
   errors |-> <<ErrNotFound("Academic year", input.academic_year_id)>>
              \o (IF duplicateCheck(jtmAssignments, input) # {}
                  THEN <<ErrDuplicate>> ELSE <<>>),
   warnings |-> <<>>]

\* the early return on a missing academic year
yearNotFound(input) ==
  [isValid |-> FALSE,
   errors |-> <<ErrNotFound("Academic year", input.academic_year_id)>>,
   warnings |-> <<>>]

\* variant: a warning makes the result invalid as well
validationResult_WarningsBlock(errors, warnings) ==
  [isValid |-> Len(errors) = 0 /\ Len(warnings) = 0,
   errors |-> errors, warnings |-> warnings]

\* { isValid: errors.length === 0, errors, warnings }
validationResult(errors, warnings) ==
  [isValid |-> Len(errors) = 0, errors |-> errors, warnings |-> warnings]

\* variant: the duplicate scan is skipped once the ceiling error is raised
checkAllocation_StopsAtCeiling(years, jtm, input) ==
  LET currentTotal == SumOver(allocatedHours(jtm), currentAssignments(jtm, input))
      newTotal == currentTotal + input.allocated_hours
      curriculumLimit == years[input.academic_year_id].total_time_allocation
  IN IF exceedsLimit(newTotal, curriculumLimit)
     THEN validationResult(<<ErrExceeds(newTotal, curriculumLimit)>>, <<>>)
     ELSE validationResult(
            IF duplicateCheck(jtm, input) # {} THEN <<ErrDuplicate>> ELSE <<>>,
            IF approachingLimit(newTotal, curriculumLimit)
            THEN <<WarnApproaching(newTotal, curriculumLimit)>> ELSE <<>>)

\* the three checks once the academic year is known
checkAllocation(years, jtm, input) ==
  LET currentTotal == SumOver(allocatedHours(jtm), currentAssignments(jtm, input))
      newTotal == currentTotal + input.allocated_hours
      curriculumLimit == years[input.academic_year_id].total_time_allocation
      e1 == IF exceedsLimit(newTotal, curriculumLimit)
            THEN <<ErrExceeds(newTotal, curriculumLimit)>> ELSE <<>>
      w1 == IF approachingLimit(newTotal, curriculumLimit)
            THEN <<WarnApproaching(newTotal, curriculumLimit)>> ELSE <<>>
      e2 == IF duplicateCheck(jtm, input) # {}
            THEN <<ErrDuplicate>> ELSE <<>>
      errors == e1 \o e2
  IN validationResult(errors, w1)

\* variant: what was collected before the duplicate scan threw is kept
validateJtmAllocation_KeepsCollected(years, jtm, input, failAt) ==
  IF failAt = 1 THEN systemError
  ELSE IF ~Exists(years, input.academic_year_id) THEN yearNotFound(input)
  ELSE IF failAt = 2 THEN systemError
  ELSE IF failAt = 3
    THEN LET newTotal == SumOver(allocatedHours(jtm),
                                 currentAssignments(jtm, input))
                         + input.allocated_hours
             curriculumLimit == years[input.academic_year_id].total_time_allocation
         IN [isValid |-> FALSE,
             errors |-> (IF exceedsLimit(newTotal, curriculumLimit)
                         THEN <<ErrExceeds(newTotal, curriculumLimit)>>
                         ELSE <<>>) \o <<ErrSystem>>,
             warnings |-> <<>>]
  ELSE checkAllocation(years, jtm, input)

\* failAt: the query that throws (1 year lookup, 2 class scan, 3 duplicate
\* scan), 0 when the store answers every query
validateJtmAllocation(years, jtm, input, failAt) ==
  IF failAt = 1 THEN systemError
  ELSE IF ~Exists(years, input.academic_year_id) THEN yearNotFound(input)
  ELSE IF failAt \in {2, 3} THEN systemError
  ELSE checkAllocation(years, jtm, input)

\* variant: an input found valid is stored right away
ValidateJtmAllocation_Persists(input, failAt) ==
  LET out == validateJtmAllocation(academicYears, jtmAssignments, input, failAt)
  IN /\ last' = [op |-> "validateJtmAllocation", input |-> input,
                 threw |-> (failAt = 1 \/ (failAt \in {2, 3}
                              /\ Exists(academicYears, input.academic_year_id))),
                 out |-> out]
     /\ IF out.isValid /\ nextJtmId <= MaxJtm
        THEN /\ jtmAssignments' =
                  [id \in DOMAIN jtmAssignments \cup {nextJtmId} |->
                     IF id = nextJtmId THEN input ELSE jtmAssignments[id]]
             /\ nextJtmId' = nextJtmId + 1
        ELSE UNCHANGED jtmTable
     /\ UNCHANGED <<callers, masterData, taskTable>>

ValidateJtmAllocation(input, failAt) ==
  /\ last' = [op |-> "validateJtmAllocation", input |-> input,
              threw |-> (failAt = 1 \/ (failAt \in {2, 3}
                           /\ Exists(academicYears, input.academic_year_id))),
              out |-> validateJtmAllocation(academicYears, jtmAssignments,
                                            input, failAt)]
  /\ UNCHANGED <<callers, masterData, jtmTable, taskTable>>

----------------------------------------------------------------------------
(* JTM assignments *)

\* variant: creation also rejects a tuple that is already stored
createJtmError_RejectsDuplicate(input) ==
  IF ~Exists(academicYears, input.academic_year_id)
    THEN ErrNotFound("Academic year", input.academic_year_id)
  ELSE IF input.teacher_id \notin teachers
    THEN ErrNotFound("Teacher", input.teacher_id)
  ELSE IF input.subject_id \notin subjects
    THEN ErrNotFound("Subject", input.subject_id)
  ELSE IF ~Exists(classes, input.class_id)
    THEN ErrNotFound("Class", input.class_id)
  ELSE IF duplicateCheck(jtmAssignments, input) # {}
    THEN ErrDuplicate
  ELSE NoError

\* variant: the class lookup is left out
createJtmError_NoClassCheck(input) ==
  IF ~Exists(academicYears, input.academic_year_id)
    THEN ErrNotFound("Academic year", input.academic_year_id)
  ELSE IF input.teacher_id \notin teachers
    THEN ErrNotFound("Teacher", input.teacher_id)
  ELSE IF input.subject_id \notin subjects
    THEN ErrNotFound("Subject", input.subject_id)
  ELSE NoError

\* the first reference that does not resolve, in the order the code tests them
createJtmError(input) ==
  IF ~Exists(academicYears, input.academic_year_id)
    THEN ErrNotFound("Academic year", input.academic_year_id)
  ELSE IF input.teacher_id \notin teachers
    THEN ErrNotFound("Teacher", input.teacher_id)
  ELSE IF input.subject_id \notin subjects
    THEN ErrNotFound("Subject", input.subject_id)
  ELSE IF ~Exists(classes, input.class_id)
    THEN ErrNotFound("Class", input.class_id)
  ELSE NoError

CreateJtmAssignment(input) ==
  /\ nextJtmId <= MaxJtm
  /\ LET err == createJtmError(input)
     IN IF err # NoError
        THEN /\ last' = [op |-> "createJtmAssignment", ok |-> FALSE,
                         id |-> 0, err |-> err]
             /\ UNCHANGED jtmTable
        ELSE /\ jtmAssignments' =
                  [id \in DOMAIN jtmAssignments \cup {nextJtmId} |->
                     IF id = nextJtmId THEN input ELSE jtmAssignments[id]]
             /\ nextJtmId' = nextJtmId + 1
             /\ last' = [op |-> "createJtmAssignment", ok |-> TRUE,
                         id |-> nextJtmId, err |-> NoError]
  /\ UNCHANGED <<callers, masterData, taskTable>>

\* existence checks of an update run only for fields whose value is truthy
updateJtmError(id, input) ==
  IF ~Exists(jtmAssignments, id)
    THEN ErrNotFound("JTM assignment", id)
  ELSE IF Truthy(input, "academic_year_id")
          /\ ~Exists(academicYears, input.academic_year_id)
    THEN ErrNotFound("Academic year", input.academic_year_id)
  ELSE IF Truthy(input, "teacher_id") /\ input.teacher_id \notin teachers
    THEN ErrNotFound("Teacher", input.teacher_id)
  ELSE IF Truthy(input, "subject_id") /\ input.subject_id \notin subjects
    THEN ErrNotFound("Subject", input.subject_id)
  ELSE IF Truthy(input, "class_id") /\ ~Exists(classes, input.class_id)
    THEN ErrNotFound("Class", input.class_id)
  ELSE NoError

\* updateData: every field that is not undefined overwrites the row's
updateData(row, input) ==
  [f \in DOMAIN row |-> IF Provided(input, f) THEN input[f] ELSE row[f]]

UpdateJtmAssignment(id, input) ==
  /\ LET err == updateJtmError(id, input)
     IN IF err # NoError
        THEN /\ last' = [op |-> "updateJtmAssignment", ok |-> FALSE,
                         id |-> id, err |-> err]
             /\ UNCHANGED jtmTable
        ELSE /\ jtmAssignments' =
                  [jtmAssignments EXCEPT ![id] = updateData(@, input)]
             /\ last' = [op |-> "updateJtmAssignment", ok |-> TRUE,
                         id |-> id, err |-> NoError]
             /\ UNCHANGED nextJtmId
  /\ UNCHANGED <<callers, masterData, taskTable>>

\* returns whether a row was deleted; never throws on a missing id
DeleteJtmAssignment(id) ==
  /\ jtmAssignments' =
       [i \in DOMAIN jtmAssignments \ {id} |-> jtmAssignments[i]]
  /\ last' = [op |-> "deleteJtmAssignment", ok |-> Exists(jtmAssignments, id),
              id |-> id, err |-> NoError]
  /\ UNCHANGED <<callers, nextJtmId, masterData, taskTable>>

----------------------------------------------------------------------------
(* Task assignments *)

createTaskError(input) ==
  IF ~Exists(academicYears, input.academic_year_id)
    THEN ErrNotFound("Academic year", input.academic_year_id)
  ELSE IF input.teacher_id \notin teachers
    THEN ErrNotFound("Teacher", input.teacher_id)
  ELSE IF ~Exists(additionalTasks, input.task_id)
    THEN ErrNotFound("Additional task", input.task_id)
  ELSE NoError

CreateTaskAssignment(input) ==
  /\ nextTaskAssignmentId <= MaxTaskAssignments
  /\ LET err == createTaskError(input)
     IN IF err # NoError
        THEN /\ last' = [op |-> "createTaskAssignment", ok |-> FALSE,
                         id |-> 0, err |-> err]
             /\ UNCHANGED taskTable
        ELSE /\ taskAssignments' =
                  [id \in DOMAIN taskAssignments \cup {nextTaskAssignmentId} |->
                     IF id = nextTaskAssignmentId THEN input
                     ELSE taskAssignments[id]]
             /\ nextTaskAssignmentId' = nextTaskAssignmentId + 1
             /\ last' = [op |-> "createTaskAssignment", ok |-> TRUE,
                         id |-> nextTaskAssignmentId, err |-> NoError]
  /\ UNCHANGED <<callers, masterData, jtmTable>>

\* a reference is looked up only when it is truthy and differs from the row's
updateTaskError(id, input) ==
  IF ~Exists(taskAssignments, id)
    THEN ErrNotFound("Task assignment", id)
  ELSE LET existing == taskAssignments[id]
       IN IF /\ Truthy(input, "academic_year_id")
             /\ input.academic_year_id # existing.academic_year_id
             /\ ~Exists(academicYears, input.academic_year_id)
            THEN ErrNotFound("Academic year", input.academic_year_id)
          ELSE IF /\ Truthy(input, "teacher_id")
                  /\ input.teacher_id # existing.teacher_id
                  /\ input.teacher_id \notin teachers
            THEN ErrNotFound("Teacher", input.teacher_id)
          ELSE IF /\ Truthy(input, "task_id")
                  /\ input.task_id # existing.task_id
                  /\ ~Exists(additionalTasks, input.task_id)
            THEN ErrNotFound("Additional task", input.task_id)
          ELSE NoError

UpdateTaskAssignment(id, input) ==
  /\ LET err == updateTaskError(id, input)
     IN IF err # NoError
        THEN /\ last' = [op |-> "updateTaskAssignment", ok |-> FALSE,
                         id |-> id, err |-> err]
             /\ UNCHANGED taskTable
        ELSE /\ taskAssignments' =
                  [taskAssignments EXCEPT ![id] = updateData(@, input)]
             /\ last' = [op |-> "updateTaskAssignment", ok |-> TRUE,
                         id |-> id, err |-> NoError]
             /\ UNCHANGED nextTaskAssignmentId
  /\ UNCHANGED <<callers, masterData, jtmTable>>

\* unlike deleteJtmAssignment, throws when the row does not exist
DeleteTaskAssignment(id) ==
  /\ IF ~Exists(taskAssignments, id)
     THEN /\ last' = [op |-> "deleteTaskAssignment", ok |-> FALSE, id |-> id,
                      err |-> ErrNotFound("Task assignment", id)]
          /\ UNCHANGED taskAssignments
     ELSE /\ taskAssignments' =
               [i \in DOMAIN taskAssignments \ {id} |-> taskAssignments[i]]
          /\ last' = [op |-> "deleteTaskAssignment", ok |-> TRUE, id |-> id,
                      err |-> NoError]
  /\ UNCHANGED <<callers, nextTaskAssignmentId, masterData, jtmTable>>

----------------------------------------------------------------------------
(* Teachers *)

\* deletes the teacher row only; assignment rows are left as they are
DeleteTeacher(id) ==
  /\ teachers' = teachers \ {id}
  /\ last' = [op |-> "deleteTeacher", ok |-> id \in teachers, id |-> id,
              err |-> NoError]
  /\ UNCHANGED <<callers, academicYears, subjects, classes, additionalTasks,
                 jtmTable, taskTable>>

----------------------------------------------------------------------------
(* Classes *)

\* the academic year is looked up only when truthy and different from the row's
updateClassError(id, input) ==
  IF ~Exists(classes, id)
    THEN ErrNotFound("Class with ID", id)
  ELSE IF /\ Truthy(input, "academic_year_id")
          /\ input.academic_year_id # classes[id].academic_year_id
          /\ ~Exists(academicYears, input.academic_year_id)
    THEN ErrNotFound("Academic year with ID", input.academic_year_id)
  ELSE NoError

UpdateClass(id, input) ==
  /\ LET err == updateClassError(id, input)
     IN IF err # NoError
        THEN /\ last' = [op |-> "updateClass", ok |-> FALSE, id |-> id,
                         err |-> err]
             /\ UNCHANGED classes
        ELSE /\ classes' = [classes EXCEPT ![id] = updateData(@, input)]
             /\ last' = [op |-> "updateClass", ok |-> TRUE, id |-> id,
                         err |-> NoError]
  /\ UNCHANGED <<callers, academicYears, teachers, subjects, additionalTasks,
                 jtmTable, taskTable>>

\* deletes the class row only; throws when it does not exist
DeleteClass(id) ==
  /\ IF ~Exists(classes, id)
     THEN /\ last' = [op |-> "deleteClass", ok |-> FALSE, id |-> id,
                      err |-> ErrNotFound("Class with ID", id)]
          /\ UNCHANGED classes
     ELSE /\ classes' = [c \in DOMAIN classes \ {id} |-> classes[c]]
          /\ last' = [op |-> "deleteClass", ok |-> TRUE, id |-> id,
                      err |-> NoError]
  /\ UNCHANGED <<callers, academicYears, teachers, subjects, additionalTasks,
                 jtmTable, taskTable>>

----------------------------------------------------------------------------
(* Academic years: the handlers answer with a made-up record and neither  *)
(* read nor write the academic_years table                                *)

\* variant: the record is also stored, under the next free id
CreateAcademicYear_Persists(input) ==
  /\ academicYears' =
       [y \in DOMAIN academicYears \cup {3} |->
          IF y = 3
          THEN [total_time_allocation |-> input.total_time_allocation,
                is_active |-> Provided(input, "is_active") /\ input.is_active]
          ELSE academicYears[y]]
  /\ last' = [op |-> "createAcademicYear", ok |-> TRUE,
              out |-> [id |-> 3,
                       total_time_allocation |-> input.total_time_allocation,
                       is_active |-> Provided(input, "is_active")
                                     /\ input.is_active]]
  /\ UNCHANGED <<callers, teachers, subjects, classes, additionalTasks,
                 jtmTable, taskTable>>

\* resolves with id 1 and the input's fields, is_active: input.is_active || false
CreateAcademicYear(input) ==
  /\ last' = [op |-> "createAcademicYear", ok |-> TRUE,
              out |-> [id |-> 1,
                       total_time_allocation |-> input.total_time_allocation,
                       is_active |-> Provided(input, "is_active")
                                     /\ input.is_active]]
  /\ UNCHANGED <<callers, masterData, jtmTable, taskTable>>

\* resolves with the input's id and its fields or their defaults
UpdateAcademicYear(id, input) ==
  /\ last' = [op |-> "updateAcademicYear", ok |-> TRUE,
              out |-> [id |-> id,
                       total_time_allocation |->
                         IF Truthy(input, "total_time_allocation")
                         THEN input.total_time_allocation ELSE 40,
                       is_active |-> Provided(input, "is_active")
                                     /\ input.is_active]]
  /\ UNCHANGED <<callers, masterData, jtmTable, taskTable>>

\* resolves with an active record carrying the id it was given
SetActiveAcademicYear(id) ==
  /\ last' = [op |-> "setActiveAcademicYear", ok |-> TRUE, id |-> id,
              out |-> [id |-> id, total_time_allocation |-> 40,
                       is_active |-> TRUE]]
  /\ UNCHANGED <<callers, masterData, jtmTable, taskTable>>

\* resolves with true
DeleteAcademicYear(id) ==
  /\ last' = [op |-> "deleteAcademicYear", ok |-> TRUE, id |-> id,
              out |-> TRUE]
  /\ UNCHANGED <<callers, masterData, jtmTable, taskTable>>

\* resolves with null
GetActiveAcademicYear ==
  /\ last' = [op |-> "getActiveAcademicYear", ok |-> TRUE, out |-> "null"]
  /\ UNCHANGED <<callers, masterData, jtmTable, taskTable>>

----------------------------------------------------------------------------
(* Workload Aggregator *)

\* variant: the maximum itself already counts as 'lebih'
getWorkloadStatus_MaxExclusive(totalHours) ==
  IF totalHours < MIN_WORKLOAD_HOURS * Scale THEN "kurang"
  ELSE IF totalHours >= MAX_WORKLOAD_HOURS * Scale THEN "lebih"
  ELSE "layak"

\* totalHours < MIN: 'kurang'; totalHours > MAX: 'lebih'; otherwise 'layak'
getWorkloadStatus(totalHours) ==
  IF totalHours < MIN_WORKLOAD_HOURS * Scale THEN "kurang"
  ELSE IF totalHours > MAX_WORKLOAD_HOURS * Scale THEN "lebih"
  ELSE "layak"

\* jtm_assignments INNER JOIN subjects INNER JOIN classes
\*   WHERE teacher_id = teacherId AND academic_year_id = academicYearId
jtmAssignmentsOf(teacherId, academicYearId) ==
  {id \in DOMAIN jtmAssignments :
     /\ jtmAssignments[id].subject_id \in subjects
     /\ Exists(classes, jtmAssignments[id].class_id)
     /\ jtmAssignments[id].teacher_id = teacherId
     /\ jtmAssignments[id].academic_year_id = academicYearId}

\* task_assignments INNER JOIN additional_tasks
\*   WHERE teacher_id = teacherId AND academic_year_id = academicYearId
taskAssignmentsOf(teacherId, academicYearId) ==
  {id \in DOMAIN taskAssignments :
     /\ Exists(additionalTasks, taskAssignments[id].task_id)
     /\ taskAssignments[id].teacher_id = teacherId
     /\ taskAssignments[id].academic_year_id = academicYearId}

\* parseFloat(jp_equivalent) of the task each task assignment row joins
jpEquivalent(rows) ==
  [id \in rows |-> additionalTasks[taskAssignments[id].task_id].jp_equivalent]

\* the TeacherWorkload of an existing teacher
teacherWorkload(teacherId, academicYearId) ==
  LET jtmRows == jtmAssignmentsOf(teacherId, academicYearId)
      taskRows == taskAssignmentsOf(teacherId, academicYearId)
      totalJtmHours == Scale * SumOver(allocatedHours(jtmAssignments), jtmRows)
      totalTaskEquivalent == SumOver(jpEquivalent(taskRows), taskRows)
      totalWorkload == totalJtmHours + totalTaskEquivalent
  IN [teacher_id |-> teacherId,
      total_jtm_hours |-> totalJtmHours,
      total_task_equivalent |-> totalTaskEquivalent,
      total_workload |-> totalWorkload,
      status |-> getWorkloadStatus(totalWorkload),
      details |-> {<<"jtm", id>> : id \in jtmRows}
                    \cup {<<"task", id>> : id \in taskRows}]

\* the result of calculateTeacherWorkload: a workload, or the not-found error
calculateTeacherWorkload(teacherId, academicYearId) ==
  IF teacherId \notin teachers
  THEN [ok |-> FALSE, err |-> ErrNotFound("Teacher", teacherId)]
  ELSE [ok |-> TRUE, err |-> NoError,
        out |-> teacherWorkload(teacherId, academicYearId)]

CalculateTeacherWorkload(teacherId, academicYearId) ==
  /\ last' = [op |-> "calculateTeacherWorkload", teacherId |-> teacherId,
              academicYearId |-> academicYearId,
              res |-> calculateTeacherWorkload(teacherId, academicYearId)]
  /\ UNCHANGED <<callers, masterData, jtmTable, taskTable>>

RECURSIVE idsInOrder(_, _)
\* the ids of a table below n, ascending (the order rows are returned in)
idsInOrder(table, n) ==
  IF n = 0 THEN <<>>
  ELSE IF n \in DOMAIN table THEN Append(idsInOrder(table, n - 1), n)
  ELSE idsInOrder(table, n - 1)

\* SELECT teacher_id FROM table WHERE academic_year_id = academicYearId
teacherIdsIn(table, nextId, academicYearId) ==
  LET ids == SelectSeq(idsInOrder(table, nextId - 1),
                       LAMBDA id : table[id].academic_year_id = academicYearId)
  IN [i \in 1..Len(ids) |-> table[ids[i]].teacher_id]

RECURSIVE uniqueInOrder(_)
\* Array.from(new Set(xs)): first occurrences, in order
uniqueInOrder(xs) ==
  IF xs = <<>> THEN <<>>
  ELSE LET front == uniqueInOrder(SubSeq(xs, 1, Len(xs) - 1))
           x == xs[Len(xs)]
       IN IF \E i \in DOMAIN front : front[i] = x THEN front
          ELSE Append(front, x)

allTeacherIds(academicYearId) ==
  uniqueInOrder(teacherIdsIn(jtmAssignments, nextJtmId, academicYearId)
                \o teacherIdsIn(taskAssignments, nextTaskAssignmentId,
                                academicYearId))

\* Promise.all over calculateTeacherWorkload: rejects when one of them throws
getAllTeacherWorkloads(academicYearId) ==
  LET ids == allTeacherIds(academicYearId)
      results == [i \in 1..Len(ids) |->
                    calculateTeacherWorkload(ids[i], academicYearId)]
      thrown == {i \in 1..Len(ids) : ~results[i].ok}
  IN IF thrown # {}
     THEN [ok |-> FALSE,
           err |-> results[CHOOSE i \in thrown : \A j \in thrown : i <= j].err]
     ELSE [ok |-> TRUE, err |-> NoError,
           out |-> [i \in 1..Len(ids) |-> results[i].out]]

GetAllTeacherWorkloads(academicYearId) ==
  /\ last' = [op |-> "getAllTeacherWorkloads",
              academicYearId |-> academicYearId,
              res |-> getAllTeacherWorkloads(academicYearId)]
  /\ UNCHANGED <<callers, masterData, jtmTable, taskTable>>

\* getWorkloadStatus applied to a total workload drawn by InitStatus
GetWorkloadStatus ==
  /\ last.op = "totalHours"
  /\ last' = [op |-> "getWorkloadStatus", totalHours |-> last.totalHours,
              status |-> getWorkloadStatus(last.totalHours)]
  /\ UNCHANGED <<callers, masterData, jtmTable, taskTable>>

\* variant: 'layak' also returns the teachers above the maximum
getTeachersByWorkloadStatus_MeetingMinimum(academicYearId, status) ==
  LET all == getAllTeacherWorkloads(academicYearId)
  IN IF ~all.ok THEN all
     ELSE [ok |-> TRUE, err |-> NoError,
           out |-> SelectSeq(all.out,
                             LAMBDA w : \/ w.status = status
                                        \/ /\ status = "layak"
                                           /\ w.status = "lebih")]

\* allWorkloads.filter(workload => workload.status === status)
getTeachersByWorkloadStatus(academicYearId, status) ==
  LET all == getAllTeacherWorkloads(academicYearId)
  IN IF ~all.ok THEN all
     ELSE [ok |-> TRUE, err |-> NoError,
           out |-> SelectSeq(all.out, LAMBDA w : w.status = status)]

GetTeachersByWorkloadStatus(academicYearId, status) ==
  /\ last' = [op |-> "getTeachersByWorkloadStatus",
              academicYearId |-> academicYearId, status |-> status,
              res |-> getTeachersByWorkloadStatus(academicYearId, status)]
  /\ UNCHANGED <<callers, masterData, jtmTable, taskTable>>

RECURSIVE Gcd(_, _)
Gcd(a, b) == IF b = 0 THEN a ELSE Gcd(b, a % b)

\* the quotient sum / n of two naturals, n > 0, as a fraction in lowest terms
Quotient(sum, n) == <<sum \div Gcd(sum, n), n \div Gcd(sum, n)>>

\* variant: the mean is taken over every teacher of the teachers table
workloadSummary_OverAllTeachers(allWorkloads) ==
  LET n == Len(allWorkloads)
      count(st) == Cardinality({i \in 1..n : allWorkloads[i].status = st})
      total == SumOver([i \in 1..n |-> allWorkloads[i].total_workload], 1..n)
  IN [total_teachers |-> n,
      layak_count |-> count("layak"),
      lebih_count |-> count("lebih"),
      kurang_count |-> count("kurang"),
      average_workload |-> IF n > 0 THEN Quotient(total, Cardinality(teachers))
                           ELSE <<0, 1>>]

\* counts per status and the mean total_workload (0 for an empty list)
workloadSummary(allWorkloads) ==
  LET n == Len(allWorkloads)
      count(st) == Cardinality({i \in 1..n : allWorkloads[i].status = st})
      total == SumOver([i \in 1..n |-> allWorkloads[i].total_workload], 1..n)
  IN [total_teachers |-> n,
      layak_count |-> count("layak"),
      lebih_count |-> count("lebih"),
      kurang_count |-> count("kurang"),
      average_workload |-> IF n > 0 THEN Quotient(total, n) ELSE <<0, 1>>]

getWorkloadValidationSummary(academicYearId) ==
  LET all == getAllTeacherWorkloads(academicYearId)
  IN IF ~all.ok THEN all
     ELSE [ok |-> TRUE, err |-> NoError, out |-> workloadSummary(all.out)]

GetWorkloadValidationSummary(academicYearId) ==
  /\ last' = [op |-> "getWorkloadValidationSummary",
              academicYearId |-> academicYearId,
              res |-> getWorkloadValidationSummary(academicYearId)]
  /\ UNCHANGED <<callers, masterData, jtmTable, taskTable>>

\* variant: the teacher is looked up only when no assignment row names it
getTeacherWorkloadDetails_LooksUpUnassigned(teacherId, academicYearId) ==
  LET jtmRows == jtmAssignmentsOf(teacherId, academicYearId)
      taskRows == taskAssignmentsOf(teacherId, academicYearId)
      totalJtm == Scale * SumOver(allocatedHours(jtmAssignments), jtmRows)
      totalTasks == SumOver(jpEquivalent(taskRows), taskRows)
      totalWorkload == totalJtm + totalTasks
  IN IF teacherId \notin teachers /\ jtmRows = {} /\ taskRows = {}
     THEN [ok |-> FALSE, err |-> ErrNotFound("Teacher", teacherId)]
     ELSE [ok |-> TRUE, err |-> NoError,
           out |-> [teacher |-> teacherId,
                    jtm_assignments |-> jtmRows,
                    task_assignments |-> taskRows,
                    summary |->
                      [total_jtm |-> totalJtm,
                       total_tasks |-> totalTasks,
                       total_workload |-> totalWorkload,
                       status |-> getWorkloadStatus(totalWorkload),
                       minimum_required |-> MIN_WORKLOAD_HOURS * Scale,
                       surplus_deficit |->
                         totalWorkload - MIN_WORKLOAD_HOURS * Scale]]]

\* variant: the JTM rows are not joined with subjects and classes
getTeacherWorkloadDetails_AllRows(teacherId, academicYearId) ==
  LET jtmRows == {id \in DOMAIN jtmAssignments :
                    /\ jtmAssignments[id].teacher_id = teacherId
                    /\ jtmAssignments[id].academic_year_id = academicYearId}
      taskRows == taskAssignmentsOf(teacherId, academicYearId)
      totalJtm == Scale * SumOver(allocatedHours(jtmAssignments), jtmRows)
      totalTasks == SumOver(jpEquivalent(taskRows), taskRows)
      totalWorkload == totalJtm + totalTasks
  IN IF teacherId \notin teachers
     THEN [ok |-> FALSE, err |-> ErrNotFound("Teacher", teacherId)]
     ELSE [ok |-> TRUE, err |-> NoError,
           out |-> [teacher |-> teacherId,
                    jtm_assignments |-> jtmRows,
                    task_assignments |-> taskRows,
                    summary |->
                      [total_jtm |-> totalJtm,
                       total_tasks |-> totalTasks,
                       total_workload |-> totalWorkload,
                       status |-> getWorkloadStatus(totalWorkload),
                       minimum_required |-> MIN_WORKLOAD_HOURS * Scale,
                       surplus_deficit |->
                         totalWorkload - MIN_WORKLOAD_HOURS * Scale]]]

\* the teacher, the joined JTM and task rows, and the summary over them
getTeacherWorkloadDetails(teacherId, academicYearId) ==
  LET jtmRows == jtmAssignmentsOf(teacherId, academicYearId)
      taskRows == taskAssignmentsOf(teacherId, academicYearId)
      totalJtm == Scale * SumOver(allocatedHours(jtmAssignments), jtmRows)
      totalTasks == SumOver(jpEquivalent(taskRows), taskRows)
      totalWorkload == totalJtm + totalTasks
  IN IF teacherId \notin teachers
     THEN [ok |-> FALSE, err |-> ErrNotFound("Teacher", teacherId)]
     ELSE [ok |-> TRUE, err |-> NoError,
           out |-> [teacher |-> teacherId,
                    jtm_assignments |-> jtmRows,
                    task_assignments |-> taskRows,
                    summary |->
                      [total_jtm |-> totalJtm,
                       total_tasks |-> totalTasks,
                       total_workload |-> totalWorkload,
                       status |-> getWorkloadStatus(totalWorkload),
                       minimum_required |-> MIN_WORKLOAD_HOURS * Scale,
                       surplus_deficit |->
                         totalWorkload - MIN_WORKLOAD_HOURS * Scale]]]

GetTeacherWorkloadDetails(teacherId, academicYearId) ==
  /\ last' = [op |-> "getTeacherWorkloadDetails", teacherId |-> teacherId,
              academicYearId |-> academicYearId,
              res |-> getTeacherWorkloadDetails(teacherId, academicYearId)]
  /\ UNCHANGED <<callers, masterData, jtmTable, taskTable>>

----------------------------------------------------------------------------
(* Allocation Progress Reporter *)

\* variant: only classes that have an assignment in the year are listed
classesOfYear_WithAssignments(academicYearId) ==
  SelectSeq(idsInOrder(classes, MaxClass),
            LAMBDA c : /\ classes[c].academic_year_id = academicYearId
                       /\ \E id \in DOMAIN jtmAssignments :
                            /\ jtmAssignments[id].class_id = c
                            /\ jtmAssignments[id].academic_year_id =
                                 academicYearId)

\* SELECT * FROM classes WHERE academic_year_id = academicYearId
classesOfYear(academicYearId) ==
  SelectSeq(idsInOrder(classes, MaxClass),
            LAMBDA c : classes[c].academic_year_id = academicYearId)

\* jtm_assignments INNER JOIN subjects
\*   WHERE class_id = classId AND academic_year_id = academicYearId
assignmentsOfClass(classId, academicYearId) ==
  {id \in DOMAIN jtmAssignments :
     /\ jtmAssignments[id].subject_id \in subjects
     /\ jtmAssignments[id].class_id = classId
     /\ jtmAssignments[id].academic_year_id = academicYearId}

\* Math.round(x): the nearest integer to num / den, halves upwards
RoundHalfUp(num, den) == (2 * num + den) \div (2 * den)

\* Math.round(((totalAllocated / curriculumLimit) * 100) * 100) / 100, in
\* hundredths of a percent; 0 when the limit is not positive
progressPercentage(totalAllocated, curriculumLimit) ==
  IF curriculumLimit > 0
  THEN RoundHalfUp(totalAllocated * 100 * Scale, curriculumLimit)
  ELSE 0

classProgress(classId, academicYearId, curriculumLimit) ==
  LET assignments == assignmentsOfClass(classId, academicYearId)
      totalAllocated == SumOver(allocatedHours(jtmAssignments), assignments)
  IN [class_id |-> classId,
      total_allocated |-> totalAllocated,
      curriculum_limit |-> curriculumLimit,
      progress_percentage |-> progressPercentage(totalAllocated, curriculumLimit),
      subjects |-> assignments]

\* one record per class of the year, or the not-found error of the year
getJtmAllocationProgress(academicYearId) ==
  IF ~Exists(academicYears, academicYearId)
  THEN [ok |-> FALSE, err |-> ErrNotFound("Academic year", academicYearId)]
  ELSE LET cs == classesOfYear(academicYearId)
           curriculumLimit == academicYears[academicYearId].total_time_allocation
       IN [ok |-> TRUE, err |-> NoError,
           out |-> [i \in 1..Len(cs) |->
                      classProgress(cs[i], academicYearId, curriculumLimit)]]

GetJtmAllocationProgress(academicYearId) ==
  /\ last' = [op |-> "getJtmAllocationProgress",
              academicYearId |-> academicYearId,
              res |-> getJtmAllocationProgress(academicYearId)]
  /\ UNCHANGED <<callers, masterData, jtmTable, taskTable>>

----------------------------------------------------------------------------
(* The aggregator and the reporter on a store whose queries can throw: their *)
(* catch blocks log and rethrow                                              *)

\* failAt: 1 teacher lookup, 2 JTM join, 3 task join; 0 when none throws
calculateTeacherWorkloadOnStore(teacherId, academicYearId, failAt) ==
  IF failAt = 1 THEN [ok |-> FALSE, err |-> ErrStore]
  ELSE IF teacherId \notin teachers
    THEN [ok |-> FALSE, err |-> ErrNotFound("Teacher", teacherId)]
  ELSE IF failAt \in {2, 3} THEN [ok |-> FALSE, err |-> ErrStore]
  ELSE calculateTeacherWorkload(teacherId, academicYearId)

CalculateTeacherWorkloadOnStore(teacherId, academicYearId, failAt) ==
  /\ last' = [op |-> "calculateTeacherWorkload", teacherId |-> teacherId,
              academicYearId |-> academicYearId, failAt |-> failAt,
              res |-> calculateTeacherWorkloadOnStore(teacherId,
                                                     academicYearId, failAt)]
  /\ UNCHANGED <<callers, masterData, jtmTable, taskTable>>

\* failAt: 1 classes query, 2 year lookup, 3 the first per-class join (it
\* runs only when the year has a class); 0 when none throws
getJtmAllocationProgressOnStore(academicYearId, failAt) ==
  IF failAt \in {1, 2} THEN [ok |-> FALSE, err |-> ErrStore]
  ELSE IF ~Exists(academicYears, academicYearId)
    THEN [ok |-> FALSE, err |-> ErrNotFound("Academic year", academicYearId)]
  ELSE IF failAt = 3 /\ classesOfYear(academicYearId) # <<>>
    THEN [ok |-> FALSE, err |-> ErrStore]
  ELSE getJtmAllocationProgress(academicYearId)

GetJtmAllocationProgressOnStore(academicYearId, failAt) ==
  /\ last' = [op |-> "getJtmAllocationProgress",
              academicYearId |-> academicYearId, failAt |-> failAt,
              res |-> getJtmAllocationProgressOnStore(academicYearId, failAt)]
  /\ UNCHANGED <<callers, masterData, jtmTable, taskTable>>

----------------------------------------------------------------------------
(* Workload report *)

\* jtm_assignments INNER JOIN teachers INNER JOIN subjects INNER JOIN classes
\*   WHERE academic_year_id = academicYearId, in id order
reportJtmData(academicYearId) ==
  SelectSeq(idsInOrder(jtmAssignments, nextJtmId - 1),
            LAMBDA id : /\ jtmAssignments[id].teacher_id \in teachers
                        /\ jtmAssignments[id].subject_id \in subjects
                        /\ Exists(classes, jtmAssignments[id].class_id)
                        /\ jtmAssignments[id].academic_year_id = academicYearId)

\* task_assignments INNER JOIN teachers INNER JOIN additional_tasks
\*   WHERE academic_year_id = academicYearId, in id order
reportTaskData(academicYearId) ==
  SelectSeq(idsInOrder(taskAssignments, nextTaskAssignmentId - 1),
            LAMBDA id : /\ taskAssignments[id].teacher_id \in teachers
                        /\ Exists(additionalTasks, taskAssignments[id].task_id)
                        /\ taskAssignments[id].academic_year_id = academicYearId)

\* the report's own classification: 'lebih' above 24, 'kurang' below 24
reportStatus(totalWorkload) ==
  IF totalWorkload > 24 * Scale THEN "lebih"
  ELSE IF totalWorkload < 24 * Scale THEN "kurang"
  ELSE "layak"

\* the entries of the workloadSummary map, in the order its keys were set
workloadReport(academicYearId) ==
  LET jtmData == reportJtmData(academicYearId)
      taskData == reportTaskData(academicYearId)
      keys == uniqueInOrder(
                [i \in 1..Len(jtmData) |-> jtmAssignments[jtmData[i]].teacher_id]
                \o [i \in 1..Len(taskData) |->
                      taskAssignments[taskData[i]].teacher_id])
      jtmOf(t) == {jtmData[i] : i \in {j \in 1..Len(jtmData) :
                     jtmAssignments[jtmData[j]].teacher_id = t}}
      taskOf(t) == {taskData[i] : i \in {j \in 1..Len(taskData) :
                      taskAssignments[taskData[j]].teacher_id = t}}
      totalJtmHours(t) == Scale * SumOver(allocatedHours(jtmAssignments),
                                          jtmOf(t))
      totalTaskEquivalent(t) == SumOver(jpEquivalent(taskOf(t)), taskOf(t))
  IN [i \in 1..Len(keys) |->
        [teacher_id |-> keys[i],
         total_jtm_hours |-> totalJtmHours(keys[i]),
         total_task_equivalent |-> totalTaskEquivalent(keys[i]),
         jtm_details |-> jtmOf(keys[i]),
         task_details |-> taskOf(keys[i]),
         total_workload |-> totalJtmHours(keys[i])
                              + totalTaskEquivalent(keys[i]),
         status |-> reportStatus(totalJtmHours(keys[i])
                                   + totalTaskEquivalent(keys[i]))]]

generateWorkloadReport(academicYearId) ==
  IF ~Exists(academicYears, academicYearId)
  THEN [success |-> FALSE, error |-> "Academic year not found"]
  ELSE [success |-> TRUE,
        data |-> [academic_year |-> academicYearId,
                  workload_summary |-> workloadReport(academicYearId)]]

GenerateWorkloadReport(academicYearId) ==
  /\ last' = [op |-> "generateWorkloadReport",
              academicYearId |-> academicYearId,
              res |-> generateWorkloadReport(academicYearId)]
  /\ UNCHANGED <<callers, masterData, jtmTable, taskTable>>

----------------------------------------------------------------------------
(* Clients that call validateJtmAllocation and then createJtmAssignment *)

\* a client's validateJtmAllocation call: the client keeps the input when the
\* answer is isValid = true and drops what it held otherwise
CallerValidates(caller, input) ==
  LET out == validateJtmAllocation(academicYears, jtmAssignments, input, 0)
  IN /\ last' = [op |-> "validateJtmAllocation", input |-> input,
                 threw |-> FALSE, out |-> out]
     /\ callers' = [callers EXCEPT
                      ![caller] = IF out.isValid THEN <<input>> ELSE <<>>]
     /\ UNCHANGED <<masterData, jtmTable, taskTable>>

\* the client's createJtmAssignment call with the input it holds
CallerCreates(caller) ==
  /\ callers[caller] # <<>>
  /\ nextJtmId <= MaxJtm
  /\ LET input == callers[caller][1]
         err == createJtmError(input)
     IN IF err # NoError
        THEN /\ last' = [op |-> "createJtmAssignment", ok |-> FALSE,
                         id |-> 0, err |-> err]
             /\ UNCHANGED jtmTable
        ELSE /\ jtmAssignments' =
                  [id \in DOMAIN jtmAssignments \cup {nextJtmId} |->
                     IF id = nextJtmId THEN input ELSE jtmAssignments[id]]
             /\ nextJtmId' = nextJtmId + 1
             /\ last' = [op |-> "createJtmAssignment", ok |-> TRUE,
                         id |-> nextJtmId, err |-> NoError]
  /\ callers' = [callers EXCEPT ![caller] = <<>>]
  /\ UNCHANGED <<masterData, taskTable>>

----------------------------------------------------------------------------
(* Initial store: the master data the handlers' tests set up, no assignments *)

Store ==
  /\ academicYears =
       (1 :> [total_time_allocation |-> 38, is_active |-> TRUE]
        @@ 2 :> [total_time_allocation |-> 20, is_active |-> FALSE])
  /\ teachers = {1, 2}
  /\ subjects = {1}
  /\ classes = (1 :> [academic_year_id |-> 1] @@ 2 :> [academic_year_id |-> 2])
  /\ additionalTasks = (1 :> [jp_equivalent |-> 400])
  /\ jtmAssignments = <<>>
  /\ nextJtmId = 1
  /\ taskAssignments = <<>>
  /\ nextTaskAssignmentId = 1

\* no client holds an accepted input
Idle == [caller \in Callers |-> <<>>]

Init ==
  /\ Store
  /\ callers = Idle
  /\ last = [op |-> "none"]

JtmWrites(updateInputs) ==
  \/ \E input \in JtmInputs : CreateJtmAssignment(input)
  \/ \E id \in JtmIdInputs, input \in updateInputs :
       UpdateJtmAssignment(id, input)
  \/ \E id \in JtmIdInputs : DeleteJtmAssignment(id)

TaskWrites ==
  \/ \E input \in TaskInputs : CreateTaskAssignment(input)
  \/ \E id \in TaskAssignmentIdInputs, input \in TaskUpdateInputs :
       UpdateTaskAssignment(id, input)
  \/ \E id \in TaskAssignmentIdInputs : DeleteTaskAssignment(id)

WorkloadReads ==
  \/ \E teacherId \in TeacherInputs, academicYearId \in YearInputs :
       CalculateTeacherWorkload(teacherId, academicYearId)
  \/ \E academicYearId \in YearInputs : GetAllTeacherWorkloads(academicYearId)

Validation(inputs) ==
  \E input \in inputs, failAt \in StoreFailures :
    ValidateJtmAllocation(input, failAt)

\* every handler of the model
Next ==
  \/ JtmWrites(JtmUpdateInputsClassZero)
  \/ TaskWrites
  \/ \E id \in TeacherInputs : DeleteTeacher(id)
  \/ WorkloadReads
  \/ Validation(ValidateInputs)
  \/ \E academicYearId \in YearInputs, status \in StatusInputs :
       GetTeachersByWorkloadStatus(academicYearId, status)
  \/ \E academicYearId \in YearInputs :
       GetWorkloadValidationSummary(academicYearId)
  \/ \E teacherId \in TeacherInputs, academicYearId \in YearInputs :
       GetTeacherWorkloadDetails(teacherId, academicYearId)
  \/ \E academicYearId \in YearInputs :
       GetJtmAllocationProgress(academicYearId)
  \/ \E id \in ClassIdInputs, input \in ClassUpdateInputs :
       UpdateClass(id, input)
  \/ \E id \in ClassIdInputs : DeleteClass(id)
  \/ \E input \in AcademicYearInputs : CreateAcademicYear(input)
  \/ \E id \in YearInputs, input \in AcademicYearUpdateInputs :
       UpdateAcademicYear(id, input)
  \/ \E id \in YearInputs : SetActiveAcademicYear(id)
  \/ \E id \in YearInputs : DeleteAcademicYear(id)
  \/ GetActiveAcademicYear
  \/ \E academicYearId \in YearInputs : GenerateWorkloadReport(academicYearId)
  \/ \E caller \in Callers, input \in JtmInputsOfYearOne :
       CallerValidates(caller, input)
  \/ \E caller \in Callers : CallerCreates(caller)

Spec == Init /\ [][Next]_vars

\* the validator against the JTM assignments the JTM handlers can store
NextValidate ==
  \/ JtmWrites(JtmUpdateInputsYearZero)
  \/ Validation(ValidateInputsYearZero)

SpecValidate == Init /\ [][NextValidate]_vars

\* the aggregator against what the assignment handlers can store
NextAssignments ==
  \/ JtmWrites(JtmUpdateInputsClassZero)
  \/ TaskWrites
  \/ WorkloadReads

SpecAssignments == Init /\ [][NextAssignments]_vars

\* the aggregator when teachers are deleted as well
NextTeachers ==
  \/ JtmWrites(JtmUpdateInputs)
  \/ TaskWrites
  \/ \E id \in TeacherInputs : DeleteTeacher(id)
  \/ WorkloadReads

SpecTeachers == Init /\ [][NextTeachers]_vars

\* getWorkloadStatus as a function of the total alone
InitStatus ==
  /\ Store
  /\ callers = Idle
  /\ \E w \in WorkloadSamples : last = [op |-> "totalHours", totalHours |-> w]

SpecStatus == InitStatus /\ [][GetWorkloadStatus]_vars

\* every operation that only reads
ReadOnly ==
  \/ Validation(ValidateInputsOfClassOne)
  \/ WorkloadReads
  \/ \E academicYearId \in YearInputs, status \in StatusInputs :
       GetTeachersByWorkloadStatus(academicYearId, status)
  \/ \E academicYearId \in YearInputs :
       GetWorkloadValidationSummary(academicYearId)
  \/ \E teacherId \in TeacherInputs, academicYearId \in YearInputs :
       GetTeacherWorkloadDetails(teacherId, academicYearId)
  \/ \E academicYearId \in YearInputs :
       GetJtmAllocationProgress(academicYearId)

\* the readers between writes of assignments
NextReadOnly ==
  \/ \E input \in JtmInputsOfYearOne : CreateJtmAssignment(input)
  \/ \E id \in JtmIdInputs, input \in JtmUpdateInputsHours :
       UpdateJtmAssignment(id, input)
  \/ \E id \in JtmIdInputs : DeleteJtmAssignment(id)
  \/ \E input \in TaskInputsOfYearOne : CreateTaskAssignment(input)
  \/ ReadOnly

SpecReadOnly == Init /\ [][NextReadOnly]_vars

\* the workload and progress queries asked about academic years without a
\* record, next to the JTM handlers
NextMissingYear ==
  \/ \E input \in JtmInputsOfYearOne : CreateJtmAssignment(input)
  \/ \E id \in JtmIdInputs, input \in JtmUpdateInputsYearZero :
       UpdateJtmAssignment(id, input)
  \/ \E id \in JtmIdInputs : DeleteJtmAssignment(id)
  \/ \E teacherId \in TeacherInputs, academicYearId \in MissingYearInputs :
       CalculateTeacherWorkload(teacherId, academicYearId)
  \/ \E academicYearId \in MissingYearInputs :
       GetAllTeacherWorkloads(academicYearId)
  \/ \E academicYearId \in MissingYearInputs :
       GetWorkloadValidationSummary(academicYearId)
  \/ \E academicYearId \in MissingYearInputs :
       GetJtmAllocationProgress(academicYearId)

SpecMissingYear == Init /\ [][NextMissingYear]_vars

\* the progress reporter next to the JTM and class handlers
NextProgress ==
  \/ \E input \in JtmInputsOfClasses : CreateJtmAssignment(input)
  \/ \E id \in JtmIdInputs, input \in JtmUpdateInputsOfSubject :
       UpdateJtmAssignment(id, input)
  \/ \E id \in JtmIdInputs : DeleteJtmAssignment(id)
  \/ \E id \in ClassIdInputs, input \in ClassUpdateInputs :
       UpdateClass(id, input)
  \/ \E id \in ClassIdInputs : DeleteClass(id)
  \/ \E academicYearId \in YearInputs :
       GetJtmAllocationProgress(academicYearId)

SpecProgress == Init /\ [][NextProgress]_vars

\* the per-teacher queries while assignments are created and teachers deleted
NextDetails ==
  \/ \E input \in JtmInputsOfYearOne : CreateJtmAssignment(input)
  \/ \E id \in JtmIdInputs : DeleteJtmAssignment(id)
  \/ \E input \in TaskInputsOfYearOne : CreateTaskAssignment(input)
  \/ \E id \in TeacherInputs : DeleteTeacher(id)
  \/ \E teacherId \in TeacherInputs, academicYearId \in YearInputs :
       CalculateTeacherWorkload(teacherId, academicYearId)
  \/ \E teacherId \in TeacherInputs, academicYearId \in YearInputs :
       GetTeacherWorkloadDetails(teacherId, academicYearId)

SpecDetails == Init /\ [][NextDetails]_vars

\* the academic year handlers next to the creation and deletion of JTM rows
NextAcademicYears ==
  \/ \E input \in AcademicYearInputs : CreateAcademicYear(input)
  \/ \E id \in YearInputs, input \in AcademicYearUpdateInputs :
       UpdateAcademicYear(id, input)
  \/ \E id \in YearInputs : SetActiveAcademicYear(id)
  \/ \E id \in YearInputs : DeleteAcademicYear(id)
  \/ GetActiveAcademicYear
  \/ \E input \in JtmInputsOfYearOne : CreateJtmAssignment(input)
  \/ \E id \in JtmIdInputs : DeleteJtmAssignment(id)

SpecAcademicYears == Init /\ [][NextAcademicYears]_vars

\* the validator, the aggregator and the reporter on a store that can throw
NextStoreFailure ==
  \/ \E input \in JtmInputsOfYearOne : CreateJtmAssignment(input)
  \/ \E id \in JtmIdInputs : DeleteJtmAssignment(id)
  \/ Validation(ValidateInputsOfClassOne)
  \/ \E teacherId \in TeacherInputs, academicYearId \in YearInputs,
        failAt \in StoreFailures :
       CalculateTeacherWorkloadOnStore(teacherId, academicYearId, failAt)
  \/ \E academicYearId \in YearInputs, failAt \in StoreFailures :
       GetJtmAllocationProgressOnStore(academicYearId, failAt)

SpecStoreFailure == Init /\ [][NextStoreFailure]_vars

\* the year-wide workload queries while assignments are created and teachers
\* deleted
NextSummaries ==
  \/ \E input \in JtmInputsOfYearOne : CreateJtmAssignment(input)
  \/ \E id \in JtmIdInputs : DeleteJtmAssignment(id)
  \/ \E input \in TaskInputsOfYearOne : CreateTaskAssignment(input)
  \/ \E id \in TeacherInputs : DeleteTeacher(id)
  \/ \E academicYearId \in YearInputs : GetAllTeacherWorkloads(academicYearId)
  \/ \E academicYearId \in YearInputs, status \in StatusInputs :
       GetTeachersByWorkloadStatus(academicYearId, status)
  \/ \E academicYearId \in YearInputs :
       GetWorkloadValidationSummary(academicYearId)

SpecSummaries == Init /\ [][NextSummaries]_vars

\* the detailed breakdown over rows whose subject or class may be gone
NextBreakdown ==
  \/ \E input \in JtmInputsOfYearOne : CreateJtmAssignment(input)
  \/ \E id \in JtmIdInputs, input \in JtmUpdateInputsSubjectZero :
       UpdateJtmAssignment(id, input)
  \/ \E input \in TaskInputsOfYearOne : CreateTaskAssignment(input)
  \/ \E id \in ClassIdInputs : DeleteClass(id)
  \/ \E teacherId \in TeacherInputs, academicYearId \in YearInputs :
       GetTeacherWorkloadDetails(teacherId, academicYearId)

SpecBreakdown == Init /\ [][NextBreakdown]_vars

\* clients that create only what a validation of theirs has accepted, next to
\* deletions
NextCallers ==
  \/ \E caller \in Callers, input \in JtmInputsOfYearOne :
       CallerValidates(caller, input)
  \/ \E caller \in Callers : CallerCreates(caller)
  \/ \E id \in JtmIdInputs : DeleteJtmAssignment(id)

SpecCallers == Init /\ [][NextCallers]_vars

\* the workload report over the assignments of academic year 1
NextReport ==
  \/ \E input \in JtmInputsOfYearOne : CreateJtmAssignment(input)
  \/ \E id \in JtmIdInputs : DeleteJtmAssignment(id)
  \/ \E input \in TaskInputsOfYearOne : CreateTaskAssignment(input)
  \/ \E academicYearId \in YearInputs : GenerateWorkloadReport(academicYearId)

SpecReport == Init /\ [][NextReport]_vars

\* the year-wide workload list while classes are deleted
NextOrphans ==
  \/ \E input \in JtmInputsOfYearOne : CreateJtmAssignment(input)
  \/ \E id \in JtmIdInputs : DeleteJtmAssignment(id)
  \/ \E input \in TaskInputsOfYearOne : CreateTaskAssignment(input)
  \/ \E id \in ClassIdInputs : DeleteClass(id)
  \/ \E academicYearId \in YearInputs : GetAllTeacherWorkloads(academicYearId)

SpecOrphans == Init /\ [][NextOrphans]_vars

\* the writers of a JTM assignment's academic year and of a class's
NextClassYear ==
  \/ \E input \in JtmInputsOfYears : CreateJtmAssignment(input)
  \/ \E id \in JtmIdInputs, input \in JtmUpdateInputsOfSubject :
       UpdateJtmAssignment(id, input)
  \/ \E id \in ClassIdInputs, input \in ClassUpdateInputs :
       UpdateClass(id, input)

SpecClassYear == Init /\ [][NextClassYear]_vars

----------------------------------------------------------------------------
(* Properties: what the stored rows say, computed row by row *)

RECURSIVE HoursOfClassYear(_, _, _, _)
\* allocated hours stored for a class in an academic year, ids 1..n
HoursOfClassYear(jtm, n, classId, yearId) ==
  IF n = 0 THEN 0
  ELSE (IF /\ n \in DOMAIN jtm
           /\ jtm[n].class_id = classId
           /\ jtm[n].academic_year_id = yearId
        THEN jtm[n].allocated_hours ELSE 0)
       + HoursOfClassYear(jtm, n - 1, classId, yearId)

RECURSIVE HoursOfTeacherYear(_, _, _)
\* allocated hours stored for a teacher in an academic year, ids 1..n
HoursOfTeacherYear(n, teacherId, yearId) ==
  IF n = 0 THEN 0
  ELSE (IF /\ n \in DOMAIN jtmAssignments
           /\ jtmAssignments[n].teacher_id = teacherId
           /\ jtmAssignments[n].academic_year_id = yearId
        THEN jtmAssignments[n].allocated_hours ELSE 0)
       + HoursOfTeacherYear(n - 1, teacherId, yearId)

RECURSIVE JpOfTeacherYear(_, _, _)
\* jp_equivalent (hundredths) of the tasks assigned to a teacher in a year
JpOfTeacherYear(n, teacherId, yearId) ==
  IF n = 0 THEN 0
  ELSE (IF /\ n \in DOMAIN taskAssignments
           /\ taskAssignments[n].teacher_id = teacherId
           /\ taskAssignments[n].academic_year_id = yearId
        THEN additionalTasks[taskAssignments[n].task_id].jp_equivalent ELSE 0)
       + JpOfTeacherYear(n - 1, teacherId, yearId)

SameTuple(a, b) ==
  /\ a.academic_year_id = b.academic_year_id
  /\ a.teacher_id = b.teacher_id
  /\ a.subject_id = b.subject_id
  /\ a.class_id = b.class_id

SameClassYear(a, b) ==
  a.class_id = b.class_id /\ a.academic_year_id = b.academic_year_id

\* the last call was validateJtmAllocation / and the store answered its queries
IsValidation == last.op = "validateJtmAllocation"
Answered == IsValidation /\ ~last.threw
YearKnown == Answered /\ last.input.academic_year_id \in DOMAIN academicYears

\* newTotal and the ceiling of the validated input, from the stored rows
NewTotal ==
  HoursOfClassYear(jtmAssignments, nextJtmId - 1, last.input.class_id,
                   last.input.academic_year_id) + last.input.allocated_hours
Ceiling == academicYears[last.input.academic_year_id].total_time_allocation

\* the last call was a createJtmAssignment that inserted row last.id
Created == last.op = "createJtmAssignment" /\ last.ok
\* jtm_assignments as it was before that insert
BeforeCreate == [i \in DOMAIN jtmAssignments \ {last.id} |-> jtmAssignments[i]]

\* this step is a createJtmAssignment that inserts an input which
\* validateJtmAllocation accepts in the state the insert starts from
ValidatedCreate ==
  /\ last'.op = "createJtmAssignment"
  /\ last'.ok
  /\ validateJtmAllocation(academicYears, jtmAssignments,
                           jtmAssignments'[last'.id], 0).isValid

----------------------------------------------------------------------------
(* C1 *)

\* C1: getWorkloadStatus returns 'kurang' exactly for totals below 24,
\* 'layak' exactly for totals from 24 to 40 inclusive, 'lebih' exactly for
\* totals above 40, and always one of the three.
Thm_C1_Classification ==
  last.op = "getWorkloadStatus" =>
    LET w == last.totalHours
        st == last.status
    IN /\ st \in {"kurang", "layak", "lebih"}
       /\ (st = "kurang") <=> (w < 24 * Scale)
       /\ (st = "layak") <=> (24 * Scale <= w /\ w <= 40 * Scale)
       /\ (st = "lebih") <=> (w > 40 * Scale)

Wit_C1_LayakAtForty ==
  /\ last.op = "getWorkloadStatus"
  /\ last.totalHours = 40 * Scale
  /\ last.status = "layak"

----------------------------------------------------------------------------
(* C2 *)

\* C2: calculateTeacherWorkload of an existing teacher returns as
\* total_jtm_hours the sum of allocated_hours of all stored JTM assignments
\* of that teacher and year, as total_task_equivalent the sum of jp_equivalent
\* of all its task assignments, and as total_workload their sum.
Cex_C2_WorkloadSums ==
  (last.op = "calculateTeacherWorkload" /\ last.res.ok) =>
    LET w == last.res.out
    IN /\ w.total_jtm_hours =
            Scale * HoursOfTeacherYear(nextJtmId - 1, last.teacherId,
                                       last.academicYearId)
       /\ w.total_task_equivalent =
            JpOfTeacherYear(nextTaskAssignmentId - 1, last.teacherId,
                            last.academicYearId)
       /\ w.total_workload = w.total_jtm_hours + w.total_task_equivalent

----------------------------------------------------------------------------
(* C3 *)

\* C3: when the academic year exists (and the store answers), the result of
\* validateJtmAllocation carries the 'exceeds curriculum limit' error, naming
\* newTotal and the limit, exactly when newTotal > total_time_allocation,
\* newTotal being the hours stored for the input's class and year plus the
\* input's allocated_hours.
Thm_C3_CeilingError ==
  YearKnown =>
    LET errors == last.out.errors
        exceeds == {i \in DOMAIN errors : errors[i][1] = "exceeds curriculum limit"}
    IN /\ (exceeds # {}) <=> (NewTotal > Ceiling)
       /\ Cardinality(exceeds) <= 1
       /\ \A i \in exceeds : errors[i] = <<"exceeds curriculum limit", NewTotal, Ceiling>>

\* the error is raised over two stored rows, one of them of another teacher
Wit_C3_CumulativeExceeds ==
  /\ YearKnown
  /\ "exceeds curriculum limit" \in Kinds(last.out.errors)
  /\ \E i, j \in DOMAIN jtmAssignments :
       /\ i # j
       /\ SameClassYear(jtmAssignments[i], last.input)
       /\ SameClassYear(jtmAssignments[j], last.input)
       /\ jtmAssignments[i].teacher_id # last.input.teacher_id

----------------------------------------------------------------------------
(* C4 *)

\* C4: the 'approaching curriculum limit' warning is produced exactly when
\* newTotal is above 90% of the limit and not above the limit, and no result
\* carries both that warning and the 'exceeds curriculum limit' error.
Thm_C4_Warning ==
  /\ YearKnown =>
       (("approaching curriculum limit" \in Kinds(last.out.warnings))
          <=> (10 * NewTotal > 9 * Ceiling /\ NewTotal <= Ceiling))
  /\ IsValidation =>
       ~ /\ "approaching curriculum limit" \in Kinds(last.out.warnings)
         /\ "exceeds curriculum limit" \in Kinds(last.out.errors)

\* a warning that rests on hours already stored
Wit_C4_WarningOverStored ==
  /\ YearKnown
  /\ last.out.warnings = <<WarnApproaching(NewTotal, Ceiling)>>
  /\ NewTotal > last.input.allocated_hours

----------------------------------------------------------------------------
(* C5 *)

\* C5: when the academic year exists (and the store answers), the 'already
\* assigned' error is produced exactly when a stored row has the input's
\* (academic year, teacher, subject, class), whatever the ceiling check found.
Thm_C5_Duplicate ==
  YearKnown =>
    LET errors == last.out.errors
        dups == {i \in DOMAIN errors : errors[i] = ErrDuplicate}
    IN /\ (dups # {}) <=>
            (\E id \in DOMAIN jtmAssignments :
               SameTuple(jtmAssignments[id], last.input))
       /\ Cardinality(dups) <= 1

\* one result with the ceiling error and the duplicate error
Wit_C5_BothErrors ==
  /\ YearKnown
  /\ Kinds(last.out.errors) = {"exceeds curriculum limit", "already assigned"}

----------------------------------------------------------------------------
(* C6 *)

\* C6: every result of validateJtmAllocation, the missing-year and the
\* system-error results included, has isValid true exactly when errors is
\* empty; warnings do not enter into it.
Thm_C6_IsValidIffNoErrors ==
  IsValidation => (last.out.isValid <=> (last.out.errors = <<>>))

\* a valid result that carries a warning
Wit_C6_ValidWithWarning ==
  /\ IsValidation
  /\ last.out.isValid
  /\ last.out.warnings # <<>>

----------------------------------------------------------------------------
(* C7 *)

\* C7: for an academic year id that no record has, validateJtmAllocation
\* (the store answering) returns isValid false, the one error 'Academic year
\* with id <id> not found' and no warning, whatever rows are stored.
Thm_C7_MissingYear ==
  (Answered /\ last.input.academic_year_id \notin DOMAIN academicYears) =>
    last.out = [isValid |-> FALSE,
                errors |-> <<<<"Academic year", last.input.academic_year_id, 0>>>>,
                warnings |-> <<>>]

\* the year is missing and a stored row carries the input's very tuple
Wit_C7_MissingYearWithRows ==
  /\ Answered
  /\ last.input.academic_year_id \notin DOMAIN academicYears
  /\ \E id \in DOMAIN jtmAssignments : SameTuple(jtmAssignments[id], last.input)

----------------------------------------------------------------------------
(* C8 *)

\* C8: getAllTeacherWorkloads returns, without failing, exactly one workload
\* per teacher id that has a JTM or task assignment in the year and none for
\* any other teacher.
Cex_C8_OnePerAssignedTeacher ==
  last.op = "getAllTeacherWorkloads" =>
    LET y == last.academicYearId
        assigned ==
          {jtmAssignments[i].teacher_id :
             i \in {k \in DOMAIN jtmAssignments :
                      jtmAssignments[k].academic_year_id = y}}
          \cup {taskAssignments[i].teacher_id :
                  i \in {k \in DOMAIN taskAssignments :
                           taskAssignments[k].academic_year_id = y}}
    IN /\ last.res.ok
       /\ {last.res.out[i].teacher_id : i \in DOMAIN last.res.out} = assigned
       /\ Len(last.res.out) = Cardinality(assigned)

----------------------------------------------------------------------------
(* C9 *)

\* C9 as claimed: in every reachable state the hours stored for a class in an
\* academic year do not exceed that year's total_time_allocation.
Cex_C9_CeilingInvariant ==
  \A y \in DOMAIN academicYears, c \in DOMAIN classes :
    HoursOfClassYear(jtmAssignments, nextJtmId - 1, c, y)
      <= academicYears[y].total_time_allocation

\* C9 as amended: a createJtmAssignment whose input validateJtmAllocation
\* accepts in the state it starts from leaves the hours stored for the
\* input's class and year within that year's total_time_allocation.
Thm_C9_ValidatedCreateWithinCeiling ==
  [][ValidatedCreate =>
       LET row == jtmAssignments'[last'.id]
       IN HoursOfClassYear(jtmAssignments', nextJtmId' - 1, row.class_id,
                           row.academic_year_id)
            <= academicYears[row.academic_year_id].total_time_allocation]_vars

\* an accepted input inserted on top of hours already stored for the class
Wit_C9_ValidatedCreateOverStored ==
  /\ Created
  /\ validateJtmAllocation(academicYears, BeforeCreate,
                           jtmAssignments[last.id], 0).isValid
  /\ \E i \in DOMAIN BeforeCreate :
       SameClassYear(BeforeCreate[i], jtmAssignments[last.id])

----------------------------------------------------------------------------
(* C10 *)

\* C10 as claimed: in every reachable state no two stored JTM assignments
\* share (academic year, teacher, subject, class).
Cex_C10_NoDuplicateTuples ==
  \A i, j \in DOMAIN jtmAssignments :
    i # j => ~SameTuple(jtmAssignments[i], jtmAssignments[j])

\* C10 as amended: a createJtmAssignment whose input validateJtmAllocation
\* accepts in the state it starts from inserts a row whose (academic year,
\* teacher, subject, class) no other stored row has.
Thm_C10_ValidatedCreateIsNew ==
  [][ValidatedCreate =>
       \A i \in DOMAIN jtmAssignments' \ {last'.id} :
         ~SameTuple(jtmAssignments'[i], jtmAssignments'[last'.id])]_vars

\* an accepted input inserted next to a row that differs from it in the
\* academic year alone
Wit_C10_ValidatedCreateNextToSimilar ==
  /\ Created
  /\ validateJtmAllocation(academicYears, BeforeCreate,
                           jtmAssignments[last.id], 0).isValid
  /\ \E i \in DOMAIN BeforeCreate :
       /\ BeforeCreate[i].teacher_id = jtmAssignments[last.id].teacher_id
       /\ BeforeCreate[i].subject_id = jtmAssignments[last.id].subject_id
       /\ BeforeCreate[i].class_id = jtmAssignments[last.id].class_id
       /\ BeforeCreate[i].academic_year_id # jtmAssignments[last.id].academic_year_id

----------------------------------------------------------------------------
(* C11 *)

\* the four records an input refers to exist
ReferencesExist(input) ==
  /\ input.academic_year_id \in DOMAIN academicYears
  /\ input.teacher_id \in teachers
  /\ input.subject_id \in subjects
  /\ input.class_id \in DOMAIN classes

\* C11: whenever the academic year, teacher, subject and class of its input
\* exist, createJtmAssignment succeeds and inserts exactly one new row
\* carrying the input's five fields, all other rows unchanged, also when
\* validateJtmAllocation rejects the same input in the same state.
Thm_C11_CreateDecoupled ==
  [][\A input \in JtmInputs :
       (CreateJtmAssignment(input) /\ ReferencesExist(input)) =>
         /\ last'.op = "createJtmAssignment"
         /\ last'.ok
         /\ last'.id \notin DOMAIN jtmAssignments
         /\ DOMAIN jtmAssignments' = DOMAIN jtmAssignments \cup {last'.id}
         /\ jtmAssignments'[last'.id] = input
         /\ \A i \in DOMAIN jtmAssignments :
              jtmAssignments'[i] = jtmAssignments[i]]_vars

\* a row was inserted that the validator rejects before the insert, for the
\* ceiling and for the duplicate tuple
Wit_C11_CreatedThoughInvalid ==
  /\ Created
  /\ Kinds(validateJtmAllocation(academicYears, BeforeCreate,
                                 jtmAssignments[last.id], 0).errors)
       = {"exceeds curriculum limit", "already assigned"}

----------------------------------------------------------------------------
(* C12 *)

\* the not-found errors of the references of an input that do not resolve
MissingReferences(input) ==
  (IF input.academic_year_id \notin DOMAIN academicYears
   THEN {<<"Academic year", input.academic_year_id, 0>>} ELSE {})
  \cup (IF input.teacher_id \notin teachers
        THEN {<<"Teacher", input.teacher_id, 0>>} ELSE {})
  \cup (IF input.subject_id \notin subjects
        THEN {<<"Subject", input.subject_id, 0>>} ELSE {})
  \cup (IF input.class_id \notin DOMAIN classes
        THEN {<<"Class", input.class_id, 0>>} ELSE {})

\* C12: when a record its input refers to does not exist, createJtmAssignment
\* fails with the not-found error naming the kind and id of a missing record
\* and inserts no row: jtm_assignments and every other table are unchanged.
Thm_C12_CreateNotFound ==
  [][\A input \in JtmInputs :
       (CreateJtmAssignment(input) /\ ~ReferencesExist(input)) =>
         /\ last'.op = "createJtmAssignment"
         /\ ~last'.ok
         /\ last'.err \in MissingReferences(input)
         /\ UNCHANGED <<masterData, jtmTable, taskTable>>]_vars

\* a create naming a missing class failed while rows were stored
Wit_C12_MissingClassOverRows ==
  /\ last.op = "createJtmAssignment"
  /\ ~last.ok
  /\ last.err = <<"Class", 3, 0>>
  /\ jtmAssignments # <<>>

----------------------------------------------------------------------------
(* C14 *)

\* stored rows carrying the tuple of the validated input
RowsOfInput ==
  {id \in DOMAIN jtmAssignments : SameTuple(jtmAssignments[id], last.input)}

\* C14: while a row created with the tuple (academic year, teacher, subject,
\* class) is stored with that tuple, every validateJtmAllocation of an input
\* with that tuple (the store answering) is invalid and carries the 'already
\* assigned' error; while no row carries the tuple, no result carries it.
Thm_C14_DuplicateWhileStored ==
  IsValidation =>
    LET dup == "already assigned" \in Kinds(last.out.errors)
    IN /\ (YearKnown /\ RowsOfInput # {}) => (dup /\ ~last.out.isValid)
       /\ (RowsOfInput = {}) => ~dup

\* the error rests on the second row alone: the first differs in the teacher
Wit_C14_RejectedAfterCreate ==
  /\ YearKnown
  /\ "already assigned" \in Kinds(last.out.errors)
  /\ RowsOfInput = {2}
  /\ 1 \in DOMAIN jtmAssignments
  /\ jtmAssignments[1].teacher_id # last.input.teacher_id
  /\ SameClassYear(jtmAssignments[1], last.input)

----------------------------------------------------------------------------
(* C13 *)

ReadOnlyOps ==
  {"validateJtmAllocation", "calculateTeacherWorkload",
   "getAllTeacherWorkloads", "getTeachersByWorkloadStatus",
   "getWorkloadValidationSummary", "getTeacherWorkloadDetails",
   "getJtmAllocationProgress"}

\* C13: a call of validateJtmAllocation, calculateTeacherWorkload,
\* getAllTeacherWorkloads, getTeachersByWorkloadStatus,
\* getWorkloadValidationSummary, getTeacherWorkloadDetails or
\* getJtmAllocationProgress leaves every table of the store as it was,
\* whether it returns a result or fails.
Thm_C13_ReadOnlyFrame ==
  [][(last' # last /\ last'.op \in ReadOnlyOps) =>
       /\ academicYears' = academicYears
       /\ teachers' = teachers
       /\ subjects' = subjects
       /\ classes' = classes
       /\ additionalTasks' = additionalTasks
       /\ jtmAssignments' = jtmAssignments
       /\ nextJtmId' = nextJtmId
       /\ taskAssignments' = taskAssignments
       /\ nextTaskAssignmentId' = nextTaskAssignmentId]_vars

\* a valid validation answered over stored JTM and task rows
Wit_C13_ValidOverRows ==
  /\ IsValidation
  /\ last.out.isValid
  /\ jtmAssignments # <<>>
  /\ taskAssignments # <<>>

----------------------------------------------------------------------------
(* C15 *)

\* C15: asked about an academic year id that no record has,
\* calculateTeacherWorkload of an existing teacher returns a zero workload
\* with status 'kurang' and no details, getAllTeacherWorkloads an empty list
\* and getWorkloadValidationSummary all zeros, none of them failing, while
\* getJtmAllocationProgress fails with 'Academic year with id <id> not found'.
Cex_C15_MissingYearAsymmetry ==
  LET missing == last.academicYearId \notin DOMAIN academicYears
  IN /\ (last.op = "calculateTeacherWorkload" /\ missing
           /\ last.teacherId \in teachers) =>
          /\ last.res.ok
          /\ last.res.out.total_jtm_hours = 0
          /\ last.res.out.total_task_equivalent = 0
          /\ last.res.out.total_workload = 0
          /\ last.res.out.status = "kurang"
          /\ last.res.out.details = {}
     /\ (last.op = "getAllTeacherWorkloads" /\ missing) =>
          (last.res.ok /\ last.res.out = <<>>)
     /\ (last.op = "getWorkloadValidationSummary" /\ missing) =>
          /\ last.res.ok
          /\ last.res.out = [total_teachers |-> 0, layak_count |-> 0,
                             lebih_count |-> 0, kurang_count |-> 0,
                             average_workload |-> <<0, 1>>]
     /\ (last.op = "getJtmAllocationProgress" /\ missing) =>
          /\ ~last.res.ok
          /\ last.res.err = <<"Academic year", last.academicYearId, 0>>

----------------------------------------------------------------------------
(* C16 *)

\* the last call was a getJtmAllocationProgress of an existing academic year
ProgressOfKnownYear ==
  /\ last.op = "getJtmAllocationProgress"
  /\ last.academicYearId \in DOMAIN academicYears

\* stored rows of a class in an academic year
RowsOfClassYear(classId, yearId) ==
  {id \in DOMAIN jtmAssignments :
     /\ jtmAssignments[id].class_id = classId
     /\ jtmAssignments[id].academic_year_id = yearId}

\* C16: for an existing academic year y, getJtmAllocationProgress(y) returns
\* one record for each class whose academic_year_id is y and none for any
\* other class; every record carries y's total_time_allocation as
\* curriculum_limit, and a class without JTM assignments in y is listed with
\* total_allocated 0, progress_percentage 0 and no subjects.
Thm_C16_OneRecordPerClass ==
  ProgressOfKnownYear =>
    LET y == last.academicYearId
        out == last.res.out
    IN /\ last.res.ok
       /\ {out[i].class_id : i \in DOMAIN out}
            = {c \in DOMAIN classes : classes[c].academic_year_id = y}
       /\ \A i, j \in DOMAIN out : out[i].class_id = out[j].class_id => i = j
       /\ \A i \in DOMAIN out :
            /\ out[i].curriculum_limit = academicYears[y].total_time_allocation
            /\ RowsOfClassYear(out[i].class_id, y) = {} =>
                 /\ out[i].total_allocated = 0
                 /\ out[i].progress_percentage = 0
                 /\ out[i].subjects = {}

\* two classes of the year are listed, one with hours and one with none,
\* while the class without hours in the year has a row in another year
Wit_C16_EmptyClassListed ==
  /\ ProgressOfKnownYear
  /\ Len(last.res.out) = 2
  /\ \E i, j \in DOMAIN last.res.out :
       /\ last.res.out[i].total_allocated > 0
       /\ last.res.out[j].total_allocated = 0
       /\ last.res.out[j].subjects = {}
       /\ \E id \in DOMAIN jtmAssignments :
            jtmAssignments[id].class_id = last.res.out[j].class_id

----------------------------------------------------------------------------
(* C17 *)

\* C17: in each record of getJtmAllocationProgress(y), total_allocated is
\* the sum of allocated_hours over the stored JTM assignments of the class in
\* y, subjects has one entry per such assignment, and progress_percentage is
\* total_allocated / total_time_allocation * 100 rounded to two decimals
\* (0 when total_time_allocation is 0).
Cex_C17_ProgressTotals ==
  ProgressOfKnownYear =>
    LET y == last.academicYearId
        out == last.res.out
        limit == academicYears[y].total_time_allocation
    IN /\ last.res.ok
       /\ \A i \in DOMAIN out :
            LET total == HoursOfClassYear(jtmAssignments, nextJtmId - 1,
                                          out[i].class_id, y)
                pct == out[i].progress_percentage
            IN /\ out[i].total_allocated = total
               /\ Cardinality(out[i].subjects)
                    = Cardinality(RowsOfClassYear(out[i].class_id, y))
               /\ IF limit = 0 THEN pct = 0
                  ELSE /\ limit * (2 * pct - 1) <= 2 * total * 100 * Scale
                       /\ 2 * total * 100 * Scale < limit * (2 * pct + 1)

----------------------------------------------------------------------------
(* C18 *)

\* C18: calculateTeacherWorkload and getTeacherWorkloadDetails fail with
\* 'Teacher with id <id> not found' whenever no teacher has the id, whatever
\* the academic year and whatever assignment rows still carry the id; they
\* return a workload only for an existing teacher.
Thm_C18_TeacherNotFound ==
  last.op \in {"calculateTeacherWorkload", "getTeacherWorkloadDetails"} =>
    IF last.teacherId \in teachers
    THEN last.res.ok
    ELSE /\ ~last.res.ok
         /\ last.res.err = <<"Teacher", last.teacherId, 0>>

\* the details of a deleted teacher are refused although a JTM row and a
\* task row of the year still carry the id
Wit_C18_DeletedTeacherRefused ==
  /\ last.op = "getTeacherWorkloadDetails"
  /\ ~last.res.ok
  /\ \E i \in DOMAIN jtmAssignments :
       /\ jtmAssignments[i].teacher_id = last.teacherId
       /\ jtmAssignments[i].academic_year_id = last.academicYearId
  /\ \E i \in DOMAIN taskAssignments :
       /\ taskAssignments[i].teacher_id = last.teacherId
       /\ taskAssignments[i].academic_year_id = last.academicYearId

----------------------------------------------------------------------------
(* C19 *)

ActiveYears == {y \in DOMAIN academicYears : academicYears[y].is_active}

----------------------------------------------------------------------------
(* C20 *)

\* C20: once setActiveAcademicYear(id) has returned for an existing year, that
\* year is the only one with is_active true (and no state in between shows
\* none or several); for an id without a record it fails and changes no year.
Cex_C20_SetActiveIsExclusive ==
  last.op = "setActiveAcademicYear" =>
    IF last.id \in DOMAIN academicYears
    THEN last.ok /\ ActiveYears = {last.id}
    ELSE ~last.ok

----------------------------------------------------------------------------
(* C21 *)

\* C21: when a store query throws during validateJtmAllocation, the call
\* returns isValid false, the one error 'Validation failed due to system
\* error' and no warning, whatever was collected before; when a store query
\* throws during calculateTeacherWorkload or getJtmAllocationProgress, the
\* call fails with that very error.
Thm_C21_SystemError ==
  /\ (IsValidation /\ last.threw) =>
       last.out = [isValid |-> FALSE,
                   errors |-> <<<<"Validation failed due to system error", 0, 0>>>>,
                   warnings |-> <<>>]
  /\ (last.op = "calculateTeacherWorkload" /\ last.failAt # 0
        /\ (last.failAt = 1 \/ last.teacherId \in teachers)) =>
       (~last.res.ok /\ last.res.err = <<"store failure", 0, 0>>)
  /\ (last.op = "getJtmAllocationProgress" /\ last.failAt \in {1, 2}) =>
       (~last.res.ok /\ last.res.err = <<"store failure", 0, 0>>)

\* the store threw in a validation whose input exceeds the ceiling and is a
\* duplicate: had the duplicate scan thrown, the ceiling error was collected
Wit_C21_ThrewAfterCollecting ==
  /\ IsValidation
  /\ last.threw
  /\ last.input.academic_year_id \in DOMAIN academicYears
  /\ NewTotal > Ceiling
  /\ RowsOfInput # {}

----------------------------------------------------------------------------
(* The year-wide workload queries *)

Range(xs) == {xs[i] : i \in DOMAIN xs}
Occurrences(xs, x) == Cardinality({i \in DOMAIN xs : xs[i] = x})

\* C22: getTeachersByWorkloadStatus(y, s) answers when getAllTeacherWorkloads(y)
\* does, and then holds exactly the entries of getAllTeacherWorkloads(y) whose
\* status is s, as often as they occur there; every entry of
\* getAllTeacherWorkloads(y) is in the result for exactly one of the three
\* statuses, and the three results together are as long as the whole list.
Thm_C22_StatusPartition ==
  last.op = "getTeachersByWorkloadStatus" =>
    LET all == getAllTeacherWorkloads(last.academicYearId)
        by(s) == getTeachersByWorkloadStatus(last.academicYearId, s)
    IN /\ last.res.ok = all.ok
       /\ all.ok =>
            /\ \A w \in Range(all.out) \cup Range(last.res.out) :
                 Occurrences(last.res.out, w) =
                   IF w.status = last.status
                   THEN Occurrences(all.out, w) ELSE 0
            /\ \A w \in Range(all.out) :
                 Cardinality({s \in StatusInputs : w \in Range(by(s).out)}) = 1
            /\ Len(by("kurang").out) + Len(by("layak").out)
                 + Len(by("lebih").out) = Len(all.out)

\* a status query that returned one of two teachers, the other one having
\* another status
Wit_C22_FilteredSome ==
  /\ last.op = "getTeachersByWorkloadStatus"
  /\ last.res.ok
  /\ Len(last.res.out) = 1
  /\ LET all == getAllTeacherWorkloads(last.academicYearId)
     IN /\ Len(all.out) = 2
        /\ \E i \in DOMAIN all.out : all.out[i].status # last.status

\* C23: getWorkloadValidationSummary(y) answers when getAllTeacherWorkloads(y)
\* does; total_teachers is the number of its entries, the three counts add up
\* to total_teachers, and average_workload is the sum of the entries'
\* total_workload divided by total_teachers, or 0 with all counts 0 when there
\* is no entry.
Thm_C23_Summary ==
  last.op = "getWorkloadValidationSummary" =>
    LET all == getAllTeacherWorkloads(last.academicYearId)
    IN /\ last.res.ok = all.ok
       /\ all.ok =>
            LET s == last.res.out
                n == Len(all.out)
                total == SumOver([i \in 1..n |-> all.out[i].total_workload],
                                 1..n)
            IN /\ s.total_teachers = n
               /\ s.layak_count + s.lebih_count + s.kurang_count = n
               /\ IF n = 0
                  THEN /\ s.average_workload = <<0, 1>>
                       /\ s.layak_count = 0
                       /\ s.lebih_count = 0
                       /\ s.kurang_count = 0
                  ELSE /\ s.average_workload[2] > 0
                       /\ s.average_workload[1] * n
                            = s.average_workload[2] * total

\* a summary over two teachers of different status
Wit_C23_TwoTeachers ==
  /\ last.op = "getWorkloadValidationSummary"
  /\ last.res.ok
  /\ last.res.out.total_teachers = 2
  /\ last.res.out.kurang_count = 1
  /\ last.res.out.layak_count = 1
  /\ last.res.out.average_workload[1] > 0

\* C24: getTeacherWorkloadDetails(t, y) answers when calculateTeacherWorkload
\* (t, y) does (the teacher exists), and then its summary has the same JTM
\* total, task total, total workload and status; minimum_required is 24,
\* surplus_deficit is the total workload minus 24 and is negative exactly when
\* the status is 'kurang'.
Thm_C24_SummaryAgrees ==
  last.op = "getTeacherWorkloadDetails" =>
    LET calc == calculateTeacherWorkload(last.teacherId, last.academicYearId)
    IN /\ last.res.ok = calc.ok
       /\ last.teacherId \in teachers => last.res.ok
       /\ last.res.ok =>
            LET s == last.res.out.summary
            IN /\ s.total_jtm = calc.out.total_jtm_hours
               /\ s.total_tasks = calc.out.total_task_equivalent
               /\ s.total_workload = calc.out.total_workload
               /\ s.status = calc.out.status
               /\ s.minimum_required = 24 * Scale
               /\ s.surplus_deficit = calc.out.total_workload - 24 * Scale
               /\ (s.surplus_deficit < 0) <=> (calc.out.status = "kurang")

\* a breakdown of a teacher who meets the minimum over joined rows, one more
\* row of the teacher naming a subject or class without a record
Wit_C24_BreakdownOverMissingClass ==
  /\ last.op = "getTeacherWorkloadDetails"
  /\ last.res.ok
  /\ last.res.out.summary.surplus_deficit = 0
  /\ \E id \in DOMAIN jtmAssignments :
       /\ jtmAssignments[id].teacher_id = last.teacherId
       /\ jtmAssignments[id].academic_year_id = last.academicYearId
       /\ \/ jtmAssignments[id].subject_id \notin subjects
          \/ ~Exists(classes, jtmAssignments[id].class_id)

----------------------------------------------------------------------------
(* Updates of a JTM assignment *)

\* the not-found errors of the references an update provides
MissingReferencesOfUpdate(input) ==
  (IF Provided(input, "academic_year_id")
      /\ input.academic_year_id \notin DOMAIN academicYears
   THEN {<<"Academic year", input.academic_year_id, 0>>} ELSE {})
  \cup (IF Provided(input, "teacher_id") /\ input.teacher_id \notin teachers
        THEN {<<"Teacher", input.teacher_id, 0>>} ELSE {})
  \cup (IF Provided(input, "subject_id") /\ input.subject_id \notin subjects
        THEN {<<"Subject", input.subject_id, 0>>} ELSE {})
  \cup (IF Provided(input, "class_id")
           /\ input.class_id \notin DOMAIN classes
        THEN {<<"Class", input.class_id, 0>>} ELSE {})

\* C25: updateJtmAssignment fails with 'JTM assignment with id <id> not found'
\* when no row has the id, and with the not-found error of a provided
\* academic year, teacher, subject or class id that has no record; a failed
\* update leaves the table as it was; a successful one changes only the
\* provided fields of the row, keeps its id and every other row, and checks
\* neither the ceiling nor duplicates.
Cex_C25_UpdateChecksReferences ==
  [][\A id \in JtmIdInputs, input \in JtmUpdateInputsClassZero :
       UpdateJtmAssignment(id, input) =>
         /\ last'.op = "updateJtmAssignment"
         /\ ~Exists(jtmAssignments, id) =>
              /\ ~last'.ok
              /\ last'.err = <<"JTM assignment", id, 0>>
         /\ (Exists(jtmAssignments, id)
             /\ MissingReferencesOfUpdate(input) # {}) =>
              /\ ~last'.ok
              /\ last'.err \in MissingReferencesOfUpdate(input)
         /\ (Exists(jtmAssignments, id)
             /\ MissingReferencesOfUpdate(input) = {}) => last'.ok
         /\ ~last'.ok => UNCHANGED <<masterData, jtmTable, taskTable>>
         /\ last'.ok =>
              /\ DOMAIN jtmAssignments' = DOMAIN jtmAssignments
              /\ \A i \in DOMAIN jtmAssignments \ {id} :
                   jtmAssignments'[i] = jtmAssignments[i]
              /\ \A f \in DOMAIN jtmAssignments[id] :
                   jtmAssignments'[id][f] =
                     IF Provided(input, f) THEN input[f]
                     ELSE jtmAssignments[id][f]
              /\ UNCHANGED <<masterData, nextJtmId, taskTable>>]_vars

----------------------------------------------------------------------------
(* Validate, then create *)

\* C26: when every createJtmAssignment is issued by a client after a
\* validateJtmAllocation of the same input answered isValid = true, and the
\* only other writes are deletions, then in every reachable state the hours
\* stored for a class in a year are within the year's total_time_allocation
\* and no two stored rows share (year, teacher, subject, class), also when two
\* clients interleave their calls.
Cex_C26_ValidatedCreatesInterleaved ==
  /\ \A y \in DOMAIN academicYears, c \in DOMAIN classes :
       HoursOfClassYear(jtmAssignments, nextJtmId - 1, c, y)
         <= academicYears[y].total_time_allocation
  /\ \A i, j \in DOMAIN jtmAssignments :
       i # j => ~SameTuple(jtmAssignments[i], jtmAssignments[j])

----------------------------------------------------------------------------
(* The workload report against the aggregator *)

\* C27: for an existing academic year y, every teacher in the workload_summary
\* of generateWorkloadReport(y) is reported with the total_workload and the
\* status calculateTeacherWorkload(teacher, y) returns, and the teachers in
\* the report are those of the entries getAllTeacherWorkloads(y) returns.
Cex_C27_ReportAgrees ==
  (last.op = "generateWorkloadReport" /\ last.res.success) =>
    LET ws == last.res.data.workload_summary
        all == getAllTeacherWorkloads(last.academicYearId)
    IN /\ \A i \in DOMAIN ws :
            LET calc == calculateTeacherWorkload(ws[i].teacher_id,
                                                last.academicYearId)
            IN /\ calc.ok
               /\ ws[i].total_workload = calc.out.total_workload
               /\ ws[i].status = calc.out.status
       /\ all.ok
       /\ {ws[i].teacher_id : i \in DOMAIN ws}
            = {all.out[i].teacher_id : i \in DOMAIN all.out}

----------------------------------------------------------------------------
(* References of the stored assignments *)

\* C28: in every reachable state, also after deleteTeacher, the teacher_id of
\* every stored JTM assignment and task assignment names a stored teacher, so
\* getAllTeacherWorkloads, getTeachersByWorkloadStatus and
\* getWorkloadValidationSummary never fail with a teacher not-found error.
Cex_C28_TeacherReferencesResolve ==
  /\ \A id \in DOMAIN jtmAssignments :
       jtmAssignments[id].teacher_id \in teachers
  /\ \A id \in DOMAIN taskAssignments :
       taskAssignments[id].teacher_id \in teachers
  /\ last.op \in {"getAllTeacherWorkloads", "getTeachersByWorkloadStatus",
                  "getWorkloadValidationSummary"} =>
       (last.res.ok \/ last.res.err[1] # "Teacher")

\* C29: every entry getAllTeacherWorkloads returns has at least one 'jtm' or
\* 'task' detail, in every reachable state, also after deleteClass removed a
\* class that stored JTM assignments name.
Cex_C29_EntriesHaveDetails ==
  (last.op = "getAllTeacherWorkloads" /\ last.res.ok) =>
    \A i \in DOMAIN last.res.out : last.res.out[i].details # {}

\* C30: in every state reachable through createJtmAssignment,
\* updateJtmAssignment and updateClass, the class of every stored JTM
\* assignment is a class of the assignment's own academic year.
Cex_C30_ClassOfOwnYear ==
  \A id \in DOMAIN jtmAssignments :
    /\ Exists(classes, jtmAssignments[id].class_id)
    /\ classes[jtmAssignments[id].class_id].academic_year_id
         = jtmAssignments[id].academic_year_id


====
